---------------------------- MODULE Spec2Model ----------------------------
(***************************************************************************)
(* A model of the calcium-imaging signal pipeline: BaselineComputer,       *)
(* Detrender, Normalizer, FilterApplier and the two orchestration entry    *)
(* points (run_pipeline, process_roi).                                     *)
(*                                                                         *)
(* Numbers.  A cell of a table is an extended rational <<n, d>>:           *)
(*   d > 0   the finite value n/d in lowest terms,                         *)
(*   <<0,0>> NaN (a missing value), <<1,0>> +inf, <<-1,0>> -inf.           *)
(* The arithmetic below follows IEEE-754 for these cases (NaN propagates,  *)
(* inf - inf = NaN, x/0 = +-inf, 0/0 = NaN).  Finite overflow, rounding    *)
(* and signed zeros are not represented.                                   *)
(* The Normalizer's default eps, 1e-12, and the quotients by it lie far    *)
(* outside 32-bit rationals; a finite value that involves it is the        *)
(* 5-tuple of rational coefficients <<c1, c2, c3, c4, c5>> denoting        *)
(*   c1/e^2 + c2/e + c3 + c4*e + c5*e^2     with e = 1e-12,                *)
(* never with c1 = c2 = c4 = c5 = 0 (that value is the rational c3).       *)
(*                                                                         *)
(* Tables.  A pandas object is a record [kind, index, columns, data]:      *)
(*   kind = "frame"   index = row labels, columns = column labels,         *)
(*                    data = sequence of rows, each a sequence of cells;   *)
(*   kind = "series"  index = the labels, data = << the values >>;         *)
(*   kind = "scalar"  data = << << the value >> >>.                        *)
(* Labels are integers; a column label k stands for the name "ROI_k".      *)
(***************************************************************************)
EXTENDS Integers, Sequences, FiniteSets, TLC

VARIABLES pc, entry, cfg, df_raw, F0_df, f0_vec, df_detr, sub_df, dff_df,
          norm_df, filter_df, saved, err, log

vars == <<pc, entry, cfg, df_raw, F0_df, f0_vec, df_detr, sub_df, dff_df,
          norm_df, filter_df, saved, err, log>>

---------------------------------------------------------------------------
(* Extended rational arithmetic (the float64 cells of a DataFrame).        *)

Abs(n) == IF n < 0 THEN -n ELSE n

Sgn(n) == IF n < 0 THEN -1 ELSE IF n > 0 THEN 1 ELSE 0

Max(a, b) == IF a >= b THEN a ELSE b

Min(a, b) == IF a <= b THEN a ELSE b

RECURSIVE GCD(_, _)
GCD(a, b) == IF b = 0 THEN a ELSE GCD(b, a % b)

Norm(n, d) ==
    IF d = 0 THEN <<Sgn(n), 0>>
    ELSE LET s == IF d < 0 THEN -1 ELSE 1
             g == GCD(Abs(n), Abs(d))
         IN  <<(s * n) \div g, (s * d) \div g>>

Fin(n) == <<n, 1>>

NaN == <<0, 0>>

PInf == <<1, 0>>

NInf == <<-1, 0>>

IsNaN(v) == Len(v) = 2 /\ v[1] = 0 /\ v[2] = 0

IsInf(v) == Len(v) = 2 /\ v[1] # 0 /\ v[2] = 0

IsFinite(v) == (Len(v) = 2 /\ v[2] # 0) \/ Len(v) = 5

NegV(a) == <<-a[1], a[2]>>

AbsV(a) == <<Abs(a[1]), a[2]>>

AddV(a, b) ==
    IF IsNaN(a) \/ IsNaN(b) THEN NaN
    ELSE IF IsInf(a) /\ IsInf(b) THEN (IF a = b THEN a ELSE NaN)
    ELSE IF IsInf(a) THEN a
    ELSE IF IsInf(b) THEN b
    ELSE Norm(a[1] * b[2] + b[1] * a[2], a[2] * b[2])

SubV(a, b) == AddV(a, NegV(b))

MulV(a, b) == Norm(a[1] * b[1], a[2] * b[2])

InvV(b) == IF b[1] < 0 THEN <<-b[2], -b[1]>> ELSE <<b[2], b[1]>>

DivV(a, b) == MulV(a, InvV(b))

\* a < b as floats compare: FALSE whenever an operand is NaN
LtV(a, b) ==
    /\ ~IsNaN(a)
    /\ ~IsNaN(b)
    /\ IF a[2] = 0 /\ b[2] = 0 THEN a[1] < b[1]
       ELSE a[1] * b[2] < b[1] * a[2]

\* a >= b as floats compare: FALSE whenever an operand is NaN
GeV(a, b) == ~IsNaN(a) /\ ~IsNaN(b) /\ ~LtV(a, b)

---------------------------------------------------------------------------
(* Arithmetic of the Normalizer, whose eps may be 1e-12: the operations    *)
(* above extended to the values with e.                                    *)

\* the coefficients of a finite value, and the value of coefficients
Coef(v) == IF Len(v) = 5 THEN v ELSE <<Fin(0), Fin(0), v, Fin(0), Fin(0)>>

Pack(c) ==
    IF c[1][1] = 0 /\ c[2][1] = 0 /\ c[4][1] = 0 /\ c[5][1] = 0 THEN c[3] ELSE c

\* a value the five coefficients cannot hold: evaluation stops here
Unrepresentable == CHOOSE v \in {} : TRUE

\* the sign of a value (0 for zero and NaN).  With e = 1e-12 the coefficient
\* of the lowest power of e decides, because the quotient of two rationals
\* whose numerators and denominators fit 32 bits and whose quotient fits too
\* is below 1e12.
SgnE(v) ==
    IF Len(v) = 2 THEN Sgn(v[1])
    ELSE LET k == CHOOSE i \in 1..5 : v[i][1] # 0 /\ \A j \in 1..(i - 1) : v[j][1] = 0
         IN  Sgn(v[k][1])

NegE(a) ==
    IF Len(a) = 2 THEN NegV(a)
    ELSE [i \in 1..5 |-> NegV(a[i])] \o <<>>

AbsE(a) == IF SgnE(a) < 0 THEN NegE(a) ELSE a

AddE(a, b) ==
    IF Len(a) = 2 /\ Len(b) = 2 THEN AddV(a, b)
    ELSE IF IsNaN(a) \/ IsNaN(b) THEN NaN
    ELSE IF IsInf(a) THEN a
    ELSE IF IsInf(b) THEN b
    ELSE LET x == Coef(a)
             y == Coef(b)
         IN  Pack([i \in 1..5 |-> AddV(x[i], y[i])] \o <<>>)

SubE(a, b) == AddE(a, NegE(b))

\* the coefficient of e^(m-3) in the product x * y: the sum of x[i] * y[j]
\* over i + j - 3 = m
RECURSIVE ConvAt(_, _, _, _)
ConvAt(x, y, m, i) ==
    IF i > 5 THEN Fin(0)
    ELSE AddV(IF m + 3 - i \in 1..5 THEN MulV(x[i], y[m + 3 - i]) ELSE Fin(0),
              ConvAt(x, y, m, i + 1))

MulE(a, b) ==
    IF Len(a) = 2 /\ Len(b) = 2 THEN MulV(a, b)
    ELSE IF IsNaN(a) \/ IsNaN(b) THEN NaN
    ELSE IF IsInf(a) \/ IsInf(b) THEN <<SgnE(a) * SgnE(b), 0>>
    ELSE LET x == Coef(a)
             y == Coef(b)
         IN  IF \A i, j \in 1..5 :
                    (i + j - 3 \notin 1..5) => (x[i][1] = 0 \/ y[j][1] = 0)
             THEN Pack([m \in 1..5 |-> ConvAt(x, y, m, 1)] \o <<>>)
             ELSE Unrepresentable

\* 1/b: for a value with e, only a single power c * e^k has an inverse of
\* the same shape
InvE(b) ==
    IF Len(b) = 2 THEN InvV(b)
    ELSE LET k == CHOOSE i \in 1..5 : b[i][1] # 0
         IN  IF \A i \in 1..5 : i # k => b[i][1] = 0
             THEN [i \in 1..5 |-> IF i = 6 - k THEN InvV(b[k]) ELSE Fin(0)] \o <<>>
             ELSE Unrepresentable

DivE(a, b) == MulE(a, InvE(b))

\* a < b as floats compare: FALSE whenever an operand is NaN; between finite
\* values the lowest power of e at which they differ decides (see SgnE)
LtE(a, b) ==
    IF Len(a) = 2 /\ Len(b) = 2 THEN LtV(a, b)
    ELSE /\ ~IsNaN(a)
         /\ ~IsNaN(b)
         /\ IF IsInf(a) THEN a = NInf
            ELSE IF IsInf(b) THEN b = PInf
            ELSE LET x == Coef(a)
                     y == Coef(b)
                 IN  \E i \in 1..5 : /\ LtV(x[i], y[i])
                                     /\ \A j \in 1..(i - 1) : x[j] = y[j]

\* a >= b as floats compare: FALSE whenever an operand is NaN
GeE(a, b) == ~IsNaN(a) /\ ~IsNaN(b) /\ ~LtE(a, b)

\* 1e-12
DefaultEps == <<Fin(0), Fin(0), Fin(0), Fin(1), Fin(0)>>

---------------------------------------------------------------------------
(* Tables and label alignment.                                             *)

Range(s) == {s[i] : i \in 1..Len(s)}

RECURSIVE SortSet(_)
SortSet(S) ==
    IF S = {} THEN <<>>
    ELSE LET m == CHOOSE x \in S : \A y \in S : x <= y
         IN  <<m>> \o SortSet(S \ {m})

MkFrame(index, columns, data) ==
    [kind |-> "frame", index |-> index, columns |-> columns, data |-> data]

MkSeries(index, values) ==
    [kind |-> "series", index |-> index, columns |-> <<>>, data |-> <<values>>]

MkScalar(v) ==
    [kind |-> "scalar", index |-> <<>>, columns |-> <<>>, data |-> <<<<v>>>>]

NoTable == MkFrame(<<>>, <<>>, <<>>)

NoSeries == MkSeries(<<>>, <<>>)

NRows(t) == Len(t.index)

NCols(t) == Len(t.columns)

\* position of label l in the label sequence s, 0 when absent
Pos(s, l) == IF l \in Range(s) THEN CHOOSE i \in 1..Len(s) : s[i] = l ELSE 0

\* the cell of frame t at row label r and column label c, NaN when absent
CellAt(t, r, c) ==
    IF Pos(t.index, r) = 0 \/ Pos(t.columns, c) = 0 THEN NaN
    ELSE t.data[Pos(t.index, r)][Pos(t.columns, c)]

\* the entry of series s at label l, NaN when absent
EntryAt(s, l) == IF Pos(s.index, l) = 0 THEN NaN ELSE s.data[1][Pos(s.index, l)]

\* column j of frame t as a sequence over the frames
Col(t, j) == [i \in 1..NRows(t) |-> t.data[i][j]]

\* the frame with t's labels whose column j is cols[j]
FromCols(t, cols) ==
    MkFrame(t.index, t.columns,
            [i \in 1..NRows(t) |-> [j \in 1..NCols(t) |-> cols[j][i]]])

MapCells(t, F(_)) ==
    [t EXCEPT !.data = [i \in 1..Len(t.data) |->
                          [j \in 1..Len(t.data[i]) |-> F(t.data[i][j])]]]

\* a label join that always sorts, even when both sides are equal
AlignLabelsSorted(a, b) == SortSet(Range(a) \cup Range(b))

\* pandas' outer join of two unique label sequences (Index.join, how="outer"):
\* equal labels are kept as they are, otherwise the sorted union
AlignLabels(a, b) ==
    IF a = b THEN a
    ELSE IF Len(b) = 0 THEN a
    ELSE IF Len(a) = 0 THEN b
    ELSE SortSet(Range(a) \cup Range(b))

\* frame (op) frame / series / scalar with pandas' alignment and broadcasting
BinOp(df, b, Op(_, _)) ==
    IF b.kind = "scalar" THEN
        MapCells(df, LAMBDA v : Op(v, b.data[1][1]))
    ELSE IF b.kind = "series" THEN
        LET cols == AlignLabels(df.columns, b.index)
        IN  MkFrame(df.index, cols,
                    [i \in 1..NRows(df) |-> [j \in 1..Len(cols) |->
                        Op(CellAt(df, df.index[i], cols[j]), EntryAt(b, cols[j]))]])
    ELSE
        LET rows == AlignLabels(df.index, b.index)
            cols == AlignLabels(df.columns, b.columns)
        IN  MkFrame(rows, cols,
                    [i \in 1..Len(rows) |-> [j \in 1..Len(cols) |->
                        Op(CellAt(df, rows[i], cols[j]), CellAt(b, rows[i], cols[j]))]])

---------------------------------------------------------------------------
(* Normalizer (src/pipeline/normalizer.py).  An operation returns          *)
(* [err, out]: err = "none" and the returned table, or the exception.      *)

Ret(t) == [err |-> "none", out |-> t]

Raise(e) == [err |-> e, out |-> NoTable]

\* fillna_value = None
None == <<>>

\* Normalizer._to_float_df: reads df.dtypes.values[0], which does not exist
\* for a frame without columns; the cast itself keeps every value
NormToFloatErr(df) == IF NCols(df) = 0 THEN "IndexError" ELSE "none"

\* a baseline left as it is (no epsilon replacement)
SafeBaselineIdentity(baseline, eps) == baseline

\* Normalizer._safe_baseline: entries with |F0| >= eps are kept, every other
\* entry (too small, or NaN, for which the comparison is false) becomes +eps
\* a replacement that leaves missing entries missing
SafeBaselineKeepsMissing(baseline, eps) ==
    MapCells(baseline, LAMBDA v : IF IsNaN(v) \/ GeE(AbsE(v), eps) THEN v ELSE eps)

SafeBaseline(baseline, eps) ==
    MapCells(baseline, LAMBDA v : IF GeE(AbsE(v), eps) THEN v ELSE eps)

\* Normalizer.subtract
NormalizerSubtract(df, baseline) ==
    IF NormToFloatErr(df) # "none" THEN Raise(NormToFloatErr(df))
    ELSE Ret(BinOp(df, baseline, SubE))

\* deltaF_over_F lines 113-120: inf -> NaN, NaN -> fillna_value, clip at 0
Clean(out, fillna_value, clip_negatives) ==
    LET r == MapCells(out, LAMBDA v : IF IsInf(v) THEN NaN ELSE v)
        f == IF fillna_value # None
             THEN MapCells(r, LAMBDA v : IF IsNaN(v) THEN fillna_value ELSE v)
             ELSE r
    IN  IF clip_negatives
        THEN MapCells(f, LAMBDA v : IF LtE(v, Fin(0)) THEN Fin(0) ELSE v)
        ELSE f

\* Normalizer.deltaF_over_F
DeltaFOverF(df, baseline, eps, as_percent, clip_negatives, fillna_value) ==
    IF NormToFloatErr(df) # "none" THEN Raise(NormToFloatErr(df))
    ELSE LET safe_base == SafeBaseline(baseline, eps)
             q == BinOp(BinOp(df, safe_base, SubE), safe_base, DivE)
             p == IF as_percent
                  THEN MapCells(q, LAMBDA v : MulE(v, Fin(100)))
                  ELSE q
         IN  Ret(Clean(p, fillna_value, clip_negatives))

---------------------------------------------------------------------------
(* The state machine.  One run is one call of an operation (or one run of  *)
(* an entry point) on inputs drawn in the initial state; pc is the place   *)
(* the call has reached.  Variables a specification does not use keep the  *)
(* values of Idle.                                                         *)

\* all frames with the given labels and cells drawn from S
Frames(index, columns, S) ==
    {MkFrame(index, columns, d) : d \in [1..Len(index) -> [1..Len(columns) -> S]]}

\* all series with the given labels and entries drawn from S
SeriesOver(index, S) == {MkSeries(index, v) : v \in [1..Len(index) -> S]}

---------------------------------------------------------------------------
(* SpecNorm: Normalizer.subtract and Normalizer.deltaF_over_F called on    *)
(* every signal table and baseline of a bounded universe.                  *)

\* eps is an argument of deltaF_over_F: its default and two larger values
EpsSet == {DefaultEps, <<1, 2>>, Fin(3)}

NormSigVals == {NaN, PInf, Fin(5)}

NormBaseVals == {NaN, Fin(0), Fin(-2), PInf}

NormSigShapes ==
    {<<(<<0>>), (<<1>>)>>, <<(<<0>>), (<<1, 2>>)>>, <<(<<0>>), (<<2, 1>>)>>,
     <<(<<0, 1>>), (<<1>>)>>, <<(<<0>>), (<<>>)>>, <<(<<>>), (<<1>>)>>}

NormBaseShapes ==
    {<<(<<0>>), (<<1>>)>>, <<(<<0>>), (<<1, 2>>)>>, <<(<<0>>), (<<2, 1>>)>>,
     <<(<<0, 1>>), (<<1>>)>>, <<(<<1, 0>>), (<<1>>)>>, <<(<<1>>), (<<1>>)>>}

NormBaseNames == {<<1>>, <<1, 2>>, <<2, 1>>, <<2, 3>>, <<>>}

NormSignals ==
    UNION {Frames(sh[1], sh[2], NormSigVals \cup {Fin(-2)}) :
               sh \in {x \in NormSigShapes : Len(x[1]) * Len(x[2]) <= 1}}
    \cup UNION {Frames(sh[1], sh[2], NormSigVals) :
               sh \in {x \in NormSigShapes : Len(x[1]) * Len(x[2]) > 1}}

NormBaselines ==
    {MkScalar(v) : v \in NormBaseVals \cup {Fin(1)}}
    \cup UNION {SeriesOver(nm, NormBaseVals) : nm \in NormBaseNames}
    \cup UNION {Frames(sh[1], sh[2], NormBaseVals) : sh \in NormBaseShapes}

NormKwDefaults ==
    [eps |-> DefaultEps, as_percent |-> FALSE, clip_negatives |-> FALSE,
     fillna_value |-> Fin(0)]

NormInit ==
    /\ pc = "norm_start"
    /\ entry = "Normalizer"
    /\ cfg = NormKwDefaults
    /\ df_detr \in NormSignals
    /\ F0_df \in NormBaselines
    /\ df_raw = NoTable
    /\ f0_vec = NoSeries
    /\ sub_df = NoTable
    /\ dff_df = NoTable
    /\ norm_df = NoTable
    /\ filter_df = NoTable
    /\ saved = NoTable
    /\ err = "none"
    /\ log = <<>>

\* sub_df = Normalizer.subtract(df_detr, F0_df)
NormSubtractCall ==
    /\ pc = "norm_start"
    /\ LET r == NormalizerSubtract(df_detr, F0_df)
       IN  /\ sub_df' = r.out
           /\ err' = r.err
    /\ pc' = "sub_done"
    /\ UNCHANGED <<entry, cfg, df_raw, F0_df, f0_vec, df_detr, dff_df, norm_df,
                   filter_df, saved, log>>

\* dff_df = Normalizer.deltaF_over_F(df_detr, F0_df, eps, as_percent, ...)
NormDffCall ==
    /\ pc = "norm_start"
    /\ \E e \in EpsSet, pct \in BOOLEAN, clip \in BOOLEAN, fill \in {Fin(0), None} :
          /\ cfg' = [eps |-> e, as_percent |-> pct, clip_negatives |-> clip,
                     fillna_value |-> fill]
          /\ LET r == DeltaFOverF(df_detr, F0_df, e, pct, clip, fill)
             IN  /\ dff_df' = r.out
                 /\ err' = r.err
    /\ pc' = "dff_done"
    /\ UNCHANGED <<entry, df_raw, F0_df, f0_vec, df_detr, sub_df, norm_df,
                   filter_df, saved, log>>

NormNext == NormSubtractCall \/ NormDffCall

SpecNorm == NormInit /\ [][NormNext]_vars

---------------------------------------------------------------------------
(* Claims about the Normalizer, checked under SpecNorm.                    *)

\* the baseline entry that pandas pairs with the signal cell at row label r
\* and column label c: <<TRUE, value>>, or <<FALSE, NaN>> when the baseline
\* has no such label
BaseEntry(b, r, c) ==
    IF b.kind = "scalar" THEN <<TRUE, b.data[1][1]>>
    ELSE IF b.kind = "series" THEN <<Pos(b.index, c) # 0, EntryAt(b, c)>>
    ELSE <<Pos(b.index, r) # 0 /\ Pos(b.columns, c) # 0, CellAt(b, r, c)>>

\* (s - eps) / eps, in percent and clipped as the call asks
EpsQuotient(s, kw) ==
    LET q == DivE(SubE(s, kw.eps), kw.eps)
        p == IF kw.as_percent THEN MulE(q, Fin(100)) ELSE q
    IN  IF kw.clip_negatives /\ LtE(p, Fin(0)) THEN Fin(0) ELSE p

AllCells(t, P(_)) ==
    \A i \in 1..Len(t.data) : \A j \in 1..Len(t.data[i]) : P(t.data[i][j])

\* C1: with fillna_value = 0.0, every cell deltaF_over_F returns is finite, and
\* where the baseline entry is finite with |F0| < eps (0 included) and the
\* signal is finite the cell is (F - eps) / eps: eps took the entry's place.
C1_DffFinite ==
    (pc = "dff_done" /\ err = "none" /\ cfg.fillna_value = Fin(0)) =>
        /\ AllCells(dff_df, IsFinite)
        /\ \A i \in 1..NRows(df_detr) : \A j \in 1..NCols(df_detr) :
             LET r == df_detr.index[i]
                 c == df_detr.columns[j]
                 b == BaseEntry(F0_df, r, c)
                 s == df_detr.data[i][j]
             IN  (b[1] /\ IsFinite(b[2]) /\ LtE(AbsE(b[2]), cfg.eps) /\ IsFinite(s))
                     => CellAt(dff_df, r, c) = EpsQuotient(s, cfg)

\* C1 witness: a returned table holding a non-zero finite cell whose baseline
\* entry was exactly 0, and another whose entry was non-zero but below eps
C1_Witness ==
    /\ pc = "dff_done"
    /\ err = "none"
    /\ cfg.fillna_value = Fin(0)
    /\ F0_df.kind # "scalar"
    /\ \E i \in 1..NRows(df_detr) : \E j, k \in 1..NCols(df_detr) :
         LET r == df_detr.index[i]
             bj == BaseEntry(F0_df, r, df_detr.columns[j])
             bk == BaseEntry(F0_df, r, df_detr.columns[k])
         IN  /\ bj[1] /\ bj[2] = Fin(0)
             /\ bk[1] /\ bk[2] = Fin(-2) /\ cfg.eps = Fin(3)
             /\ IsFinite(df_detr.data[i][j])
             /\ IsFinite(df_detr.data[i][k])
             /\ CellAt(dff_df, r, df_detr.columns[j]) # Fin(0)
             /\ CellAt(dff_df, r, df_detr.columns[k]) # Fin(0)

NormDone == pc \in {"sub_done", "dff_done"} /\ err = "none"

NormOut == IF pc = "sub_done" THEN sub_df ELSE dff_df

\* the baseline carries exactly the signal's labels, in the signal's order
LabelsMatch(df, b) ==
    \/ b.kind = "scalar"
    \/ b.kind = "series" /\ b.index = df.columns
    \/ b.kind = "frame" /\ b.index = df.index /\ b.columns = df.columns

Ascending(s) == \A i \in 1..(Len(s) - 1) : s[i] < s[i + 1]

\* out is what the alignment of the signal's labels s with the baseline's
\* labels b along one axis must be: every label of either side once; s itself
\* when b is the same sequence or empty; b itself when s is empty; in every
\* other case the labels in ascending order
JoinedAs(out, s, b) ==
    /\ Range(out) = Range(s) \cup Range(b)
    /\ Len(out) = Cardinality(Range(out))
    /\ (b = s \/ b = <<>>) => out = s
    /\ s = <<>> => out = b
    /\ (b # s /\ b # <<>> /\ s # <<>>) => Ascending(out)

---------------------------------------------------------------------------
(* FilterApplier (src/pipeline/filters.py).                                *)
(*                                                                         *)
(* A smoothed cell is a weighted sum with irrational (Gaussian) or         *)
(* least-squares (Savitzky-Golay) weights; it is kept as a term naming     *)
(* the routine's parameters and the source cells the weights multiply:     *)
(*   <<"gauss", sigma, taps>>              taps over offsets -radius..radius*)
(*   <<"savgol", polyorder, pos, taps>>    the fitted window and the place *)
(*                                         in it the fit is evaluated at   *)
(* A term whose taps hold a NaN is NaN.  Terms have length 3 or 4, plain   *)
(* cells length 2.                                                         *)

E_FilterMethod == "ValueError: FILTER_METHOD must be 'gaussian' or 'savgol'"

E_SavgolPoly == "ValueError: SAVGOL_POLY must be < SAVGOL_WINDOW"

E_SavgolWindow == "ValueError: SAVGOL_WINDOW must be at least POLYORDER + 2"

E_NoSciPy == "ImportError: Savitzky-Golay filter requires SciPy"

\* str.lower() on one character
LowerChar(c) ==
    CASE c = "A" -> "a" [] c = "B" -> "b" [] c = "C" -> "c" [] c = "D" -> "d"
      [] c = "E" -> "e" [] c = "F" -> "f" [] c = "G" -> "g" [] c = "H" -> "h"
      [] c = "I" -> "i" [] c = "J" -> "j" [] c = "K" -> "k" [] c = "L" -> "l"
      [] c = "M" -> "m" [] c = "N" -> "n" [] c = "O" -> "o" [] c = "P" -> "p"
      [] c = "Q" -> "q" [] c = "R" -> "r" [] c = "S" -> "s" [] c = "T" -> "t"
      [] c = "U" -> "u" [] c = "V" -> "v" [] c = "W" -> "w" [] c = "X" -> "x"
      [] c = "Y" -> "y" [] c = "Z" -> "z" [] OTHER -> c

\* str.lower(): every upper-case letter of s replaced by its lower-case form
RECURSIVE Lower(_)
Lower(s) ==
    IF Len(s) = 0 THEN ""
    ELSE LowerChar(SubSeq(s, 1, 1)) \o Lower(SubSeq(s, 2, Len(s)))

\* FilterApplier.__init__: (method or "savgol").lower(); the other
\* arguments are stored (sigma as float, window and poly as int)
FilterApplierInit(kw) == [kw EXCEPT !.method = Lower(IF kw.method = "" THEN "savgol" ELSE kw.method)]

\* df.empty: no rows or no columns
IsEmpty(df) == NRows(df) = 0 \/ NCols(df) = 0

\* Series.bfill(): the next valid value at or after each frame
Bfill(c) ==
    [i \in 1..Len(c) |->
        IF \E k \in i..Len(c) : ~IsNaN(c[k])
        THEN c[CHOOSE k \in i..Len(c) :
                   ~IsNaN(c[k]) /\ \A m \in i..(k - 1) : IsNaN(c[m])]
        ELSE NaN]

\* Series.ffill(): the last valid value at or before each frame
Ffill(c) ==
    [i \in 1..Len(c) |->
        IF \E k \in 1..i : ~IsNaN(c[k])
        THEN c[CHOOSE k \in 1..i :
                   ~IsNaN(c[k]) /\ \A m \in (k + 1)..i : IsNaN(c[m])]
        ELSE NaN]

AllNaN(c) == \A i \in 1..Len(c) : IsNaN(c[i])

\* apply() lines 165-169: every column that is not entirely NaN is filled
\* backward, then forward
FillForFilter(df) ==
    FromCols(df, [j \in 1..NCols(df) |->
                    IF AllNaN(Col(df, j)) THEN Col(df, j)
                    ELSE Ffill(Bfill(Col(df, j)))])

\* a restore step that hands back the filtered table as it is
RestoreNansSkipped(filtered, nan_source) == filtered

\* FilterApplier._restore_nans with nan_mask = nan_source.isna():
\* filtered.where(~nan_mask, np.nan) keeps a cell only where the mask has its
\* labels and is False there; a cell whose labels the mask lacks becomes NaN
RestoreNans(filtered, nan_source) ==
    MkFrame(filtered.index, filtered.columns,
            [i \in 1..NRows(filtered) |-> [j \in 1..NCols(filtered) |->
                IF /\ Pos(nan_source.index, filtered.index[i]) # 0
                   /\ Pos(nan_source.columns, filtered.columns[j]) # 0
                   /\ ~IsNaN(CellAt(nan_source, filtered.index[i], filtered.columns[j]))
                THEN filtered.data[i][j] ELSE NaN]])

\* Python's round(num/den): to the nearest integer, ties to the even one
RoundHalfEven(num, den) ==
    LET f == num \div den
        r2 == 2 * (num - f * den)
    IN  IF r2 < den THEN f
        ELSE IF r2 > den THEN f + 1
        ELSE IF f % 2 = 0 THEN f ELSE f + 1

\* _gaussian_numpy line 85: radius = int(max(1, round(3 * sigma)))
NumpyRadius(sigma) == Max(1, RoundHalfEven(3 * sigma[1], sigma[2]))

\* scipy.ndimage.gaussian_filter1d: lw = int(truncate * sigma + 0.5) with the
\* default truncate = 4.0
NdimageRadius(sigma) == (8 * sigma[1] + sigma[2]) \div (2 * sigma[2])

\* the 0-based source frame that scipy.ndimage reads at position p of a
\* sequence of n frames extended by `mode`
NdimageSource(mode, n, p) ==
    CASE mode = "nearest" -> Max(0, Min(n - 1, p))
      [] mode = "wrap" -> p % n
      [] mode = "reflect" ->
            LET q == p % (2 * n) IN IF q < n THEN q ELSE 2 * n - 1 - q
      [] mode = "mirror" ->
            IF n = 1 THEN 0
            ELSE LET q == p % (2 * n - 2) IN IF q < n THEN q ELSE 2 * n - 2 - q

\* _gaussian_numpy lines 91-97: the np.pad mode for a boundary policy
NumpyPadMode(mode) ==
    IF mode = "nearest" THEN "edge"
    ELSE IF mode \in {"reflect", "mirror"} THEN "reflect"
    ELSE "wrap"

\* the 0-based source frame that np.pad(a, (radius, radius), mode=pad_mode)
\* puts at position p (np.pad's "reflect" does not repeat the edge frame)
NumpyPadSource(pad_mode, n, p) ==
    CASE pad_mode = "edge" -> Max(0, Min(n - 1, p))
      [] pad_mode = "wrap" -> p % n
      [] pad_mode = "reflect" ->
            IF n = 1 THEN 0
            ELSE LET q == p % (2 * n - 2) IN IF q < n THEN q ELSE 2 * n - 2 - q

\* the smoothed cell from its taps
Term(head, taps) ==
    IF \E k \in 1..Len(taps) : IsNaN(taps[k]) THEN NaN ELSE Append(head, taps)

\* one column convolved with the Gaussian kernel of the given radius, source(p)
\* being the frame read at (possibly padded) position p
GaussColumn(c, sigma, radius, source(_)) ==
    [i \in 1..Len(c) |->
        Term(<<"gauss", sigma>>,
             [k \in 1..(2 * radius + 1) |-> c[source((i - 1) + (k - 1) - radius) + 1]])]

\* FilterApplier._gaussian_ndimage
GaussianNdimage(self, df) ==
    FromCols(df, [j \in 1..NCols(df) |->
        GaussColumn(Col(df, j), self.gaussian_sigma, NdimageRadius(self.gaussian_sigma),
                    LAMBDA p : NdimageSource(self.gauss_boundary, NRows(df), p))])

\* FilterApplier._gaussian_numpy
GaussianNumpy(self, df) ==
    IF GeV(Fin(0), self.gaussian_sigma) THEN df
    ELSE FromCols(df, [j \in 1..NCols(df) |->
        GaussColumn(Col(df, j), self.gaussian_sigma, NumpyRadius(self.gaussian_sigma),
                    LAMBDA p : NumpyPadSource(NumpyPadMode(self.gauss_boundary),
                                              NRows(df), p))])

\* FilterApplier._apply_gaussian
\* a dispatch without the sigma <= 0 shortcut
ApplyGaussianUnguarded(self, df) ==
    IF self.have_scipy_gauss THEN Ret(GaussianNdimage(self, df))
    ELSE Ret(GaussianNumpy(self, df))

ApplyGaussian(self, df) ==
    IF GeV(Fin(0), self.gaussian_sigma) THEN Ret(df)
    ELSE IF self.have_scipy_gauss THEN Ret(GaussianNdimage(self, df))
    ELSE Ret(GaussianNumpy(self, df))

\* int(w) | 1 : the lowest bit set
BitOr1(w) == 2 * (w \div 2) + 1

\* an even window rounded down to the odd number below it
SavgolWindowRoundedDown(n, savgol_window) ==
    LET win == IF savgol_window % 2 = 0 THEN savgol_window - 1 ELSE savgol_window
        max_odd == IF n % 2 = 1 THEN n ELSE n - 1
    IN  Max(3, Min(win, max_odd))

\* _apply_savgol lines 128-131: the effective window for n frames
SavgolWindow(n, savgol_window) ==
    LET win == BitOr1(savgol_window)
        max_odd == IF n % 2 = 1 THEN n ELSE n - 1
    IN  Max(3, Min(win, max_odd))

\* a polyorder check that only asks for polyorder < window
SavgolCheckPolyOnly(win, poly) ==
    IF poly >= win THEN E_SavgolPoly ELSE "none"

\* _apply_savgol lines 134-138: the polyorder validation
SavgolCheck(win, poly) ==
    IF poly >= win THEN E_SavgolPoly
    ELSE IF win < poly + 2 THEN E_SavgolWindow
    ELSE "none"

\* scipy.signal.savgol_filter(arr, win, poly, axis=0) with mode="interp": a
\* frame at least win \div 2 from both ends is fitted on the window centred
\* on it, a frame nearer an end on the first (last) win frames
SavgolColumn(c, win, poly) ==
    LET n == Len(c)
        half == win \div 2
        first == [i \in 1..n |->
                    IF i - 1 < half THEN 1
                    ELSE IF i - 1 >= n - half THEN n - win + 1
                    ELSE i - half]
    IN  [i \in 1..n |->
            Term(<<"savgol", poly, i - first[i]>>,
                 [k \in 1..win |-> c[first[i] + k - 1]])]

\* FilterApplier._apply_savgol; called lists the call made to SciPy
ApplySavgol(self, df) ==
    IF ~self.have_scipy_sg THEN [err |-> E_NoSciPy, out |-> NoTable, called |-> <<>>]
    ELSE IF NRows(df) < 3 THEN [err |-> "none", out |-> df, called |-> <<>>]
    ELSE LET win == SavgolWindow(NRows(df), self.savgol_window)
             e == SavgolCheck(win, self.savgol_poly)
         IN  IF e # "none" THEN [err |-> e, out |-> NoTable, called |-> <<>>]
             ELSE [err |-> "none",
                   out |-> FromCols(df, [j \in 1..NCols(df) |->
                              SavgolColumn(Col(df, j), win, self.savgol_poly)]),
                   called |-> <<<<"savgol_filter", win, self.savgol_poly>>>>]

\* apply() with the method dispatched before the empty-table return
FilterApplyMethodFirst(self, df) ==
    IF self.method \notin {"gaussian", "savgol"}
    THEN [err |-> E_FilterMethod, out |-> NoTable, called |-> <<>>]
    ELSE IF IsEmpty(df) THEN [err |-> "none", out |-> df, called |-> <<>>]
    ELSE LET df_filled == FillForFilter(df)
             r == IF self.method = "gaussian"
                  THEN ApplyGaussian(self, df_filled) @@ [called |-> <<>>]
                  ELSE ApplySavgol(self, df_filled)
         IN  IF r.err # "none" THEN r
             ELSE [r EXCEPT !.out = RestoreNans(r.out, df)]

\* FilterApplier.apply
FilterApply(self, df) ==
    IF IsEmpty(df) THEN [err |-> "none", out |-> df, called |-> <<>>]
    ELSE LET df_filled == FillForFilter(df)
             r == IF self.method = "gaussian"
                  THEN ApplyGaussian(self, df_filled) @@ [called |-> <<>>]
                  ELSE IF self.method = "savgol"
                  THEN ApplySavgol(self, df_filled)
                  ELSE [err |-> E_FilterMethod, out |-> NoTable, called |-> <<>>]
         IN  IF r.err # "none" THEN r
             ELSE [r EXCEPT !.out = RestoreNans(r.out, df)]

---------------------------------------------------------------------------
(* SpecFilter: a FilterApplier is constructed and applied once.            *)

MaxFrames == 5

MaxWin == 6

MaxPoly == 4

\* a column of n frames, NaN at the frames in mask and the value 10*j + i at
\* every other frame i
MaskedColumn(n, mask, j) ==
    [i \in 1..n |-> IF i \in mask THEN NaN ELSE Fin(10 * j + i)]

RangeIndex(n) == [i \in 1..n |-> i - 1]

\* tables of n frames: a first channel with every pattern of missing cells,
\* alone, beside an entirely missing channel, or beside a channel missing at
\* both ends
FilterTablesOf(n) ==
    UNION {{FromCols(MkFrame(RangeIndex(n), <<1>>, <<>>), <<MaskedColumn(n, m, 1)>>),
            FromCols(MkFrame(RangeIndex(n), <<1, 2>>, <<>>),
                     <<MaskedColumn(n, m, 1), MaskedColumn(n, 1..n, 2)>>),
            FromCols(MkFrame(RangeIndex(n), <<1, 2>>, <<>>),
                     <<MaskedColumn(n, m, 1), MaskedColumn(n, {1, n}, 2)>>)}
           : m \in SUBSET (1..n)}

FilterTables ==
    UNION {FilterTablesOf(n) : n \in 0..MaxFrames}
    \cup {MkFrame(RangeIndex(3), <<>>, <<<<>>, <<>>, <<>>>>)}

Sigmas == {Fin(-1), Fin(0), <<1, 2>>, Fin(1)}

Boundaries == {"reflect", "nearest", "mirror", "wrap"}

\* the constructor's arguments, with the two import flags of the module
\* (HAVE_SCIPY_SG, HAVE_SCIPY_GAUSS)
FilterKw(m, sigma, b, w, p, sg, gs) ==
    [method |-> m, gaussian_sigma |-> sigma, gauss_boundary |-> b,
     savgol_window |-> w, savgol_poly |-> p,
     have_scipy_sg |-> sg, have_scipy_gauss |-> gs]

FilterKwargs ==
    {FilterKw("savgol", Fin(2), "reflect", w, p, TRUE, TRUE) :
        w \in 0..MaxWin, p \in 0..MaxPoly}
    \cup {FilterKw(m, Fin(2), "reflect", 3, 1, sg, TRUE) :
        m \in {"savgol", "SAVGOL", "SavGol", ""}, sg \in BOOLEAN}
    \cup {FilterKw(m, s, b, 30, 3, TRUE, gs) :
        m \in {"gaussian"}, s \in Sigmas, b \in Boundaries, gs \in BOOLEAN}
    \cup {FilterKw("Gaussian", Fin(0), "reflect", 30, 3, TRUE, TRUE)}
    \cup {FilterKw("GAUSSIAN", Fin(1), "nearest", 30, 3, TRUE, TRUE)}
    \cup {FilterKw("median", s, "reflect", w, p, sg, TRUE) :
        s \in {Fin(0), Fin(1)}, w \in {3, 4}, p \in {1, 5}, sg \in BOOLEAN}

FilterInit ==
    /\ pc = "filter_new"
    /\ entry = "FilterApplier"
    /\ cfg \in FilterKwargs
    /\ norm_df \in FilterTables
    /\ df_raw = NoTable
    /\ F0_df = NoTable
    /\ f0_vec = NoSeries
    /\ df_detr = NoTable
    /\ sub_df = NoTable
    /\ dff_df = NoTable
    /\ filter_df = NoTable
    /\ saved = NoTable
    /\ err = "none"
    /\ log = <<>>

\* filterer = FilterApplier(method=..., ...): cfg becomes the object's fields
FilterConstruct ==
    /\ pc = "filter_new"
    /\ cfg' = FilterApplierInit(cfg)
    /\ pc' = "filter_ready"
    /\ UNCHANGED <<entry, df_raw, F0_df, f0_vec, df_detr, sub_df, dff_df, norm_df,
                   filter_df, saved, err, log>>

\* filter_df = filterer.apply(norm_df); log lists the call made to SciPy's
\* savgol_filter
FilterApplyCall ==
    /\ pc = "filter_ready"
    /\ LET r == FilterApply(cfg, norm_df)
       IN  /\ filter_df' = r.out
           /\ err' = r.err
           /\ log' = r.called
    /\ pc' = "filter_done"
    /\ UNCHANGED <<entry, cfg, df_raw, F0_df, f0_vec, df_detr, sub_df, dff_df,
                   norm_df, saved>>

FilterNext == FilterConstruct \/ FilterApplyCall

SpecFilter == FilterInit /\ [][FilterNext]_vars

---------------------------------------------------------------------------
(* Claims about FilterApplier, checked under SpecFilter.                   *)

\* C3: when apply returns for a non-empty table, every cell missing in the
\* input is missing at the same frame and channel of the output, the output
\* has the input's labels, and an entirely missing channel stays entirely
\* missing.
C3_NansRestored ==
    (pc = "filter_done" /\ err = "none" /\ ~IsEmpty(norm_df)) =>
        /\ filter_df.index = norm_df.index
        /\ filter_df.columns = norm_df.columns
        /\ \A i \in 1..NRows(norm_df) : \A j \in 1..NCols(norm_df) :
              IsNaN(norm_df.data[i][j]) => IsNaN(filter_df.data[i][j])
        /\ \A j \in 1..NCols(norm_df) :
              AllNaN(Col(norm_df, j)) => AllNaN(Col(filter_df, j))

\* C3 witness: Savitzky-Golay ran on a table with an entirely missing channel
\* and a channel missing at an interior frame whose neighbours were smoothed
C3_Witness ==
    /\ pc = "filter_done"
    /\ err = "none"
    /\ cfg.method = "savgol"
    /\ log # <<>>
    /\ NCols(norm_df) = 2
    /\ AllNaN(Col(norm_df, 2))
    /\ AllNaN(Col(filter_df, 2))
    /\ \E i \in 2..(NRows(norm_df) - 1) :
          /\ IsNaN(norm_df.data[i][1])
          /\ IsNaN(filter_df.data[i][1])
          /\ Len(filter_df.data[i - 1][1]) = 4
          /\ Len(filter_df.data[i + 1][1]) = 4

\* the largest odd number <= n, for n >= 1
LargestOddUpTo(n) == CHOOSE m \in 1..n : m % 2 = 1 /\ m + 2 > n

\* the call apply made to savgol_filter, when it made one
SavgolCalled == pc = "filter_done" /\ log # <<>>

\* C6 as stated: the effective window is w when w is odd and w - 1 when w is
\* even, clamped to at most the largest odd number <= n and at least 3, so it
\* never exceeds a configured value >= 3.
C6_Original ==
    SavgolCalled =>
        LET w == cfg.savgol_window
            down == IF w % 2 = 0 THEN w - 1 ELSE w
        IN  /\ log[1][2] = Max(3, Min(down, LargestOddUpTo(NRows(norm_df))))
            /\ (w >= 3 => log[1][2] <= w)

\* C6 amended: for n >= 3 frames the effective window is w when w is odd and
\* w + 1 when w is even (rounded up), then clamped to at most the largest odd
\* number <= n and to at least 3; it is always odd, >= 3 and <= n, and it
\* exceeds a configured value >= 3 by at most one (only for an even value).
\* Every smoothed cell is fitted on exactly that many frames.
C6_EffectiveWindow ==
    SavgolCalled =>
        LET w == cfg.savgol_window
            n == NRows(norm_df)
            up == IF w % 2 = 0 THEN w + 1 ELSE w
            win == log[1][2]
        IN  /\ n >= 3
            /\ win = Max(3, Min(up, LargestOddUpTo(n)))
            /\ win % 2 = 1
            /\ win >= 3
            /\ win <= n
            /\ (w >= 3 => win <= w + 1)
            /\ (w >= 3 /\ w % 2 = 1 => win <= w)
            /\ AllCells(filter_df, LAMBDA v : IsNaN(v) \/ (Len(v) = 4 /\ Len(v[4]) = win))

\* C6 witness: a configured window of 4 on 5 frames is filtered with window 5
C6_Witness ==
    /\ SavgolCalled
    /\ cfg.savgol_window = 4
    /\ NRows(norm_df) = 5
    /\ log[1][2] = 5

SavgolErrors == {E_SavgolPoly, E_SavgolWindow}

\* C7 as stated: savgol raises a validation error for every table and every
\* (window, poly) with poly >= window, and succeeds whenever 3 <= window <= n
\* and poly = window - 3.
C7_Original ==
    (pc = "filter_done" /\ cfg.method = "savgol") =>
        /\ cfg.savgol_poly >= cfg.savgol_window => err \in SavgolErrors
        /\ (cfg.savgol_window >= 3 /\ cfg.savgol_window <= NRows(norm_df)
              /\ cfg.savgol_poly = cfg.savgol_window - 3) => err = "none"

\* C7 amended: with SciPy available, savgol raises a validation error for
\* every table with at least 3 frames and one channel and every (window, poly)
\* with window >= 3 and poly >= window; a table with fewer than 3 frames or
\* without channels is returned with no validation at all; a window below 3
\* is raised to 3, so poly <= 1 passes there; and the call succeeds whenever
\* 3 <= window <= n and poly = window - 3.
C7_SavgolValidation ==
    (pc = "filter_done" /\ cfg.method = "savgol" /\ cfg.have_scipy_sg) =>
        LET w == cfg.savgol_window
            p == cfg.savgol_poly
            n == NRows(norm_df)
            filterable == n >= 3 /\ NCols(norm_df) >= 1
        IN  /\ (filterable /\ w >= 3 /\ p >= w) => (err \in SavgolErrors /\ log = <<>>)
            /\ ~filterable => (err = "none" /\ log = <<>>)
            /\ (filterable /\ w < 3 /\ p <= 1) => err = "none"
            /\ (filterable /\ w >= 3 /\ w <= n /\ p = w - 3) =>
                  /\ err = "none"
                  /\ Len(log) = 1
                  /\ log[1][3] = p
                  /\ p < log[1][2]
                  /\ log[1][2] <= n

\* C7 witness: poly = window = 4 on 5 frames passes the first check (the
\* effective window is 5) and is refused by the second
C7_Witness ==
    /\ pc = "filter_done"
    /\ cfg.method = "savgol"
    /\ cfg.savgol_window = 4
    /\ cfg.savgol_poly = 4
    /\ NRows(norm_df) = 5
    /\ err = E_SavgolWindow

\* C10 as stated: a method that is neither savgol nor gaussian fails with the
\* configuration error for every input table, an empty one included.
C10_Original ==
    (pc = "filter_done" /\ cfg.method \notin {"savgol", "gaussian"}) =>
        err = E_FilterMethod

\* C10 amended: a method that (lower-cased, empty meaning savgol) is neither
\* savgol nor gaussian fails with the configuration error for every table
\* with at least one frame and one channel, tables with fewer than 3 frames
\* included, whatever the other parameters; an empty table is returned
\* unchanged and without error before the method is looked at.
C10_UnknownMethod ==
    (pc = "filter_done" /\ cfg.method \notin {"savgol", "gaussian"}) =>
        IF IsEmpty(norm_df)
        THEN err = "none" /\ filter_df = norm_df
        ELSE err = E_FilterMethod /\ log = <<>>

\* C10 witness: an unknown method on a non-empty table of 2 frames
C10_Witness ==
    /\ pc = "filter_done"
    /\ cfg.method = "median"
    /\ NRows(norm_df) = 2
    /\ NCols(norm_df) = 2
    /\ err = E_FilterMethod

---------------------------------------------------------------------------
(* BaselineComputer (src/pipeline/baseline.py).  compute returns           *)
(* [err, F0, f0, started]: the exception or "none", the baseline table,    *)
(* the representative vector, and whether a percentile or rolling-window   *)
(* computation had been started when the call ended.                       *)

E_StimNone == "ValueError: STIM_FRAME is None; pre-stim baseline requires a stimulus frame."

E_StimRange == "ValueError: STIM_FRAME out of range after trimming"

E_PreWindow == "ValueError: BASELINE_PRE_WINDOW must be >= 3"

E_GlobalQ == "ValueError: GLOBAL_PERCENTILE_Q must be in [0,100]"

E_RollingWindow == "ValueError: ROLLING_WINDOW must be >= 3"

E_BaselineMode == "ValueError: Unknown baseline mode"

\* raised by df.rolling(window, min_periods) before any window is evaluated
E_MinPeriods == "ValueError: min_periods must be <= window"

\* raised by np.nanquantile inside the rolling apply
E_NumpyQuantile == "ValueError: Quantiles must be in the range [0, 1]"

BaselineFail(e, started) ==
    [err |-> e, F0 |-> NoTable, f0 |-> NoSeries, started |-> started]

BaselineOk(F0, f0, started) ==
    [err |-> "none", F0 |-> F0, f0 |-> f0, started |-> started]

\* the sequence f with every item evaluated once
Items(f) == f \o <<>>

\* the values of c that are not NaN, in order
Valid(c) == SelectSeq(c, LAMBDA v : ~IsNaN(v))

\* the finite values of c in ascending order
RECURSIVE SortV(_)
SortV(c) ==
    IF Len(c) = 0 THEN <<>>
    ELSE LET k == CHOOSE i \in 1..Len(c) : \A m \in 1..Len(c) : ~LtV(c[m], c[i])
         IN  <<c[k]>> \o SortV(Items([i \in 1..(Len(c) - 1) |->
                                         IF i < k THEN c[i] ELSE c[i + 1]]))

\* median with NaN skipped (DataFrame.median, Rolling.median)
Median(c) ==
    LET v == SortV(Valid(c))
        k == Len(v)
    IN  IF k = 0 THEN NaN
        ELSE IF k % 2 = 1 THEN v[(k + 1) \div 2]
        ELSE DivV(AddV(v[k \div 2], v[k \div 2 + 1]), Fin(2))

\* mean with NaN skipped (Rolling.mean)
RECURSIVE SumV(_)
SumV(c) == IF Len(c) = 0 THEN Fin(0) ELSE AddV(c[1], SumV(Tail(c)))

Mean(c) ==
    LET v == Valid(c)
    IN  IF Len(v) = 0 THEN NaN ELSE DivV(SumV(v), Fin(Len(v)))

\* the q-quantile (q a rational in [0, 1]) with NaN skipped and linear
\* interpolation (DataFrame.quantile, np.nanquantile)
Quantile(c, q) ==
    LET v == SortV(Valid(c))
        k == Len(v)
        h == MulV(Fin(k - 1), q)
        lo == h[1] \div h[2]
        frac == SubV(h, Fin(lo))
    IN  IF k = 0 THEN NaN
        ELSE IF frac = Fin(0) THEN v[lo + 1]
        ELSE AddV(v[lo + 1], MulV(frac, SubV(v[lo + 2], v[lo + 1])))

\* q / 100.0
Percent(q) == DivV(q, Fin(100))

QInRange(q) == GeV(q, Fin(0)) /\ GeV(Fin(100), q)

\* the frame with df's labels whose every row is the vector f0
Tile(df, f0) ==
    MkFrame(df.index, df.columns, [i \in 1..NRows(df) |-> f0])

\* a 0-based slice bound as Python reads it for a sequence of n items
SliceBound(n, a) == IF a < 0 THEN Max(0, n + a) ELSE Min(a, n)

\* c[start:stop]
Slice(c, start, stop) ==
    LET a == SliceBound(Len(c), start)
        b == SliceBound(Len(c), stop)
    IN  IF b <= a THEN <<>> ELSE [i \in 1..(b - a) |-> c[a + i]]

\* a window start that is not clamped at the first frame
PreStimStartUnclamped(stim_frame, pre_window) == stim_frame - pre_window

\* baseline_pre_stim_median line 27: start = max(0, stim_frame - pre_window)
PreStimStart(stim_frame, pre_window) == Max(0, stim_frame - pre_window)

\* BaselineComputer._validate_stim_and_window
ValidateStimAndWindow(self, n_rows) ==
    IF self.stim_frame = None THEN E_StimNone
    ELSE IF self.stim_frame[1] <= 0 \/ self.stim_frame[1] > n_rows THEN E_StimRange
    ELSE IF self.pre_window < 3 THEN E_PreWindow
    ELSE "none"

\* BaselineComputer.baseline_pre_stim_median
BaselinePreStimMedian(self, df) ==
    LET e == ValidateStimAndWindow(self, NRows(df))
    IN  IF e # "none" THEN BaselineFail(e, FALSE)
        ELSE LET stim == self.stim_frame[1]
                 start == PreStimStart(stim, self.pre_window)
                 f0 == [j \in 1..NCols(df) |-> Median(Slice(Col(df, j), start, stim))]
             IN  BaselineOk(Tile(df, f0), MkSeries(df.columns, f0), FALSE)

\* BaselineComputer.baseline_global_median
BaselineGlobalMedian(self, df) ==
    LET f0 == [j \in 1..NCols(df) |-> Median(Col(df, j))]
    IN  BaselineOk(Tile(df, f0), MkSeries(df.columns, f0), FALSE)

\* BaselineComputer.baseline_global_percentile
BaselineGlobalPercentile(self, df) ==
    IF ~QInRange(self.global_percentile_q) THEN BaselineFail(E_GlobalQ, FALSE)
    ELSE LET f0 == [j \in 1..NCols(df) |->
                      Quantile(Col(df, j), Percent(self.global_percentile_q))]
         IN  BaselineOk(Tile(df, f0), MkSeries(df.columns, f0), TRUE)

\* floor(log2(n / d)) for n, d > 0
RECURSIVE Log2Floor(_, _)
Log2Floor(n, d) ==
    IF n >= 2 * d THEN Log2Floor(n, 2 * d) + 1
    ELSE IF n < d THEN Log2Floor(2 * n, d) - 1
    ELSE 0

RECURSIVE Pow2(_)
Pow2(k) == IF k = 0 THEN 1 ELSE 2 * Pow2(k - 1)

\* (x * 2^j) mod d
RECURSIVE DoubleMod(_, _, _)
DoubleMod(x, j, d) == IF j = 0 THEN x % d ELSE DoubleMod((2 * x) % d, j - 1, d)

\* the rounding error of the double nearest n/d (n, d > 0 in lowest terms):
\* with e = Log2Floor(n, d) the 53-bit significand is n * 2^(52-e) / d
\* rounded to the nearest integer, so the double is
\* n/d + DoubleError(n, d) / (d * 2^(52-e)); a tie cannot occur
DoubleError(n, d) ==
    LET r == DoubleMod(n, 52 - Log2Floor(n, d), d)
    IN  IF 2 * r < d THEN -r ELSE d - r

\* int(np.ceil(window * frac)) for a window >= 1 and the double frac nearest
\* the rational frac[1]/frac[2].  When the exact product is not an integer
\* the double product lies between the same two integers.  When it is an
\* integer k, the double product is k plus window times the rounding error of
\* frac, rounded to a double: it exceeds k, and the ceiling is k + 1, exactly
\* when that excess is more than half the spacing 2^(E-52) of the doubles
\* above k (E = Log2Floor(k, 1)); 25 * 0.28 is 7.000000000000001.  For a
\* negative frac the product is the mirror image and the ceiling drops the
\* fractional part, the spacing below a power of two being half as wide.
CeilMul(window, frac) ==
    LET n == frac[1]
        d == frac[2]
        a == Abs(n)
        exact == -((-(window * n)) \div d)
    IN  IF n = 0 \/ d = 1 \/ (window * n) % d # 0 THEN exact
        ELSE LET k == (window * a) \div d
                 t == DoubleError(a, d)
                 half == d * Pow2(Log2Floor(k, 1) - Log2Floor(a, d))
             IN  IF n > 0
                 THEN IF 2 * window * t > half THEN k + 1 ELSE k
                 ELSE IF 2 * window * (-t) * (IF Pow2(Log2Floor(k, 1)) = k THEN 2 ELSE 1)
                            > half
                      THEN -(k - 1) ELSE -k

\* minp = max(3, int(np.ceil(window * self.roll_min_frac)))
MinPeriods(window, frac) == Max(3, CeilMul(window, frac))

\* pandas' FixedWindowIndexer with center=True: the window of frame i (1-based)
\* is the frames start+1 .. end
RollingBounds(n, window, i) ==
    LET offset == (window - 1) \div 2
        end == (i - 1) + 1 + offset
    IN  [start |-> Max(0, Min(n, end - window)), end |-> Max(0, Min(n, end))]

\* the samples of the window of frame i as the rolling aggregations see them:
\* pandas replaces +-inf by NaN before windowing
RollingWindowOf(c, window, i) ==
    LET b == RollingBounds(Len(c), window, i)
    IN  [k \in 1..(b.end - b.start) |->
            IF IsInf(c[b.start + k]) THEN NaN ELSE c[b.start + k]]

\* frames of column c whose window holds at least minp valid (finite) samples
RollingValid(c, window, minp) ==
    {i \in 1..Len(c) : Len(Valid(RollingWindowOf(c, window, i))) >= minp}

\* .bfill().ffill()
BfillThenFfill(c) == Ffill(Items(Bfill(c)))

\* df.rolling(window, center=True, min_periods=minp).<stat>().bfill().ffill()
\* for one column, stat being "median", "mean" or "quantile"
RollingColumn(c, window, minp, stat, q) ==
    BfillThenFfill(Items(
        [i \in 1..Len(c) |->
            IF i \in RollingValid(c, window, minp)
            THEN LET w == Items(RollingWindowOf(c, window, i))
                 IN  CASE stat = "median" -> Median(w)
                       [] stat = "mean" -> Mean(w)
                       [] stat = "quantile" -> Quantile(w, q)
            ELSE NaN]))

\* the same for every column; df.rolling refuses a min_periods above the
\* window before any window is evaluated
RollingFrame(df, window, minp, stat, q) ==
    IF minp > window THEN Raise(E_MinPeriods)
    ELSE Ret(FromCols(df, Items([j \in 1..NCols(df) |->
                          RollingColumn(Items(Col(df, j)), window, minp, stat, q)])))

\* f0_repr = base.median(axis=0)
F0Repr(base) == MkSeries(base.columns, [j \in 1..NCols(base) |-> Median(Col(base, j))])

\* BaselineComputer.baseline_rolling_median
BaselineRollingMedian(self, df) ==
    IF self.rolling_window < 3 THEN BaselineFail(E_RollingWindow, FALSE)
    ELSE LET minp == MinPeriods(self.rolling_window, self.roll_min_frac)
             r == RollingFrame(df, self.rolling_window, minp, "median", NaN)
         IN  IF r.err # "none" THEN BaselineFail(r.err, FALSE)
             ELSE BaselineOk(r.out, F0Repr(r.out), TRUE)

\* BaselineComputer.baseline_rolling_mean
BaselineRollingMean(self, df) ==
    IF self.rolling_window < 3 THEN BaselineFail(E_RollingWindow, FALSE)
    ELSE LET minp == MinPeriods(self.rolling_window, self.roll_min_frac)
             r == RollingFrame(df, self.rolling_window, minp, "mean", NaN)
         IN  IF r.err # "none" THEN BaselineFail(r.err, FALSE)
             ELSE BaselineOk(r.out, F0Repr(r.out), TRUE)

\* BaselineComputer.baseline_rolling_percentile with _rolling_apply_quantile:
\* q is not checked; np.nanquantile refuses a q outside [0, 100] when the
\* first window with enough valid samples is evaluated
BaselineRollingPercentile(self, df) ==
    IF self.rolling_window < 3 THEN BaselineFail(E_RollingWindow, FALSE)
    ELSE LET minp == MinPeriods(self.rolling_window, self.roll_min_frac)
             q == self.rolling_percentile_q
             r == RollingFrame(df, self.rolling_window, minp, "quantile", Percent(q))
         IN  IF minp > self.rolling_window THEN BaselineFail(r.err, FALSE)
             ELSE IF ~QInRange(q) /\ \E j \in 1..NCols(df) :
                                   RollingValid(Col(df, j), self.rolling_window, minp) # {}
             THEN BaselineFail(E_NumpyQuantile, TRUE)
             ELSE BaselineOk(r.out, F0Repr(r.out), TRUE)

\* BaselineComputer.compute
BaselineCompute(self, df) ==
    CASE self.mode = "pre_stim_median" -> BaselinePreStimMedian(self, df)
      [] self.mode = "global_median" -> BaselineGlobalMedian(self, df)
      [] self.mode = "global_percentile" -> BaselineGlobalPercentile(self, df)
      [] self.mode = "rolling_median" -> BaselineRollingMedian(self, df)
      [] self.mode = "rolling_percentile" -> BaselineRollingPercentile(self, df)
      [] self.mode = "rolling_mean" -> BaselineRollingMean(self, df)
      [] OTHER -> BaselineFail(E_BaselineMode, FALSE)

---------------------------------------------------------------------------
(* SpecBaseline: BaselineComputer.compute(df_raw)       on traces of   *)
(* up to MaxTrace frames, one action per strategy of compute.              *)

MaxTrace == 7

MaxRoll == 5

MaxPre == 4

\* a column of n frames, NaN at the frames in mask and otherwise values that
\* are neither increasing nor decreasing along the trace
TraceColumn(n, mask, j) ==
    [i \in 1..n |-> IF i \in mask THEN NaN ELSE Fin(10 * j + ((3 * i) % 7))]

\* one channel with every pattern of missing samples, and two channels when at
\* most one sample of the first is missing
BaselineTablesOf(n) ==
    {FromCols(MkFrame(RangeIndex(n), <<1>>, <<>>), <<TraceColumn(n, m, 1)>>) :
        m \in SUBSET (1..n)}
    \cup {FromCols(MkFrame(RangeIndex(n), <<1, 2>>, <<>>),
                   <<TraceColumn(n, m, 1), TraceColumn(n, {n}, 2)>>) :
            m \in {{}} \cup {{i} : i \in 1..n}}

\* one channel with an infinite sample at frame i (+inf at an odd frame, -inf
\* at an even one) and a missing sample at the frames in mask
InfTablesOf(n) ==
    {FromCols(MkFrame(RangeIndex(n), <<1>>, <<>>),
              <<[k \in 1..n |-> IF k = i THEN (IF i % 2 = 1 THEN PInf ELSE NInf)
                                ELSE TraceColumn(n, m, 1)[k]]>>) :
        i \in 1..n, m \in {{}, {2}, {n}}}

InfTables == UNION {InfTablesOf(n) : n \in {3, 4, MaxTrace}}

HasInf(df) == \E i \in 1..NRows(df) : \E j \in 1..NCols(df) : IsInf(df.data[i][j])

BaselineTables == UNION {BaselineTablesOf(n) : n \in 0..MaxTrace} \cup InfTables

BaselineKw(mode, stim, pre, roll, gq, rq, frac) ==
    [mode |-> mode, stim_frame |-> stim, pre_window |-> pre, rolling_window |-> roll,
     global_percentile_q |-> gq, rolling_percentile_q |-> rq, roll_min_frac |-> frac]

\* percentiles below, inside and above [0, 100]
Percentiles == {Fin(-10), Fin(0), Fin(30), Fin(50), Fin(100), Fin(150)}

MinFracs == {<<1, 5>>, <<3, 4>>, Fin(1)}

\* a window and a fraction whose product is 7 in exact arithmetic and
\* 7.000000000000001 in doubles (25 * 0.28), and a fraction above 1
RoundedUp == <<25, (<<7, 25>>)>>

AboveOne == <<5, (<<6, 5>>)>>

BaselineKwargs ==
    {BaselineKw("pre_stim_median", stim, pre, 101, Fin(30), Fin(10), <<1, 5>>) :
        stim \in {None} \cup {<<k>> : k \in 0..(MaxTrace + 1)}, pre \in 2..MaxPre}
    \cup {BaselineKw(m, None, 43, 101, Fin(30), Fin(10), <<1, 5>>) :
        m \in {"global_median", "median"}}
    \cup {BaselineKw("global_percentile", None, 43, 101, q, Fin(10), <<1, 5>>) :
        q \in Percentiles}
    \cup {BaselineKw(m, None, 43, w, Fin(30), Fin(10), f) :
        m \in {"rolling_median", "rolling_mean"}, w \in 2..MaxRoll, f \in MinFracs}
    \cup {BaselineKw("rolling_percentile", None, 43, w, Fin(30), q, <<1, 5>>) :
        w \in 2..MaxRoll, q \in Percentiles}
    \cup {BaselineKw("rolling_percentile", None, 43, w, Fin(30), Fin(30), Fin(1)) :
        w \in 2..MaxRoll}
    \cup {BaselineKw(m, None, 43, x[1], Fin(30), Fin(30), x[2]) :
        m \in {"rolling_median", "rolling_mean", "rolling_percentile"},
        x \in {RoundedUp, AboveOne}}

BaselineInit ==
    /\ pc = "baseline_ready"
    /\ entry = "BaselineComputer"
    /\ cfg \in BaselineKwargs
    /\ df_raw \in BaselineTables
    /\ NRows(df_raw) >= 1 \/ cfg.mode = "pre_stim_median"
    /\ HasInf(df_raw) => cfg.mode \in {"rolling_median", "rolling_mean", "rolling_percentile"}
    /\ F0_df = NoTable
    /\ f0_vec = NoSeries
    /\ df_detr = NoTable
    /\ sub_df = NoTable
    /\ dff_df = NoTable
    /\ norm_df = NoTable
    /\ filter_df = NoTable
    /\ saved = NoTable
    /\ err = "none"
    /\ log = <<>>

\* F0_df, f0_vec = baseline.compute(df_raw) for a computer of the given mode;
\* log records that a percentile or rolling-window computation was started
BaselineCall(mode) ==
    /\ pc = "baseline_ready"
    /\ cfg.mode = mode
    /\ LET r == BaselineCompute(cfg, df_raw)
       IN  /\ F0_df' = r.F0
           /\ f0_vec' = r.f0
           /\ err' = r.err
           /\ log' = IF r.started THEN <<"baseline_computation">> ELSE <<>>
    /\ pc' = "baseline_done"
    /\ UNCHANGED <<entry, cfg, df_raw, df_detr, sub_df, dff_df, norm_df, filter_df, saved>>

ComputePreStimMedian == BaselineCall("pre_stim_median")

ComputeGlobalMedian == BaselineCall("global_median")

ComputeGlobalPercentile == BaselineCall("global_percentile")

ComputeRollingMedian == BaselineCall("rolling_median")

ComputeRollingPercentile == BaselineCall("rolling_percentile")

ComputeRollingMean == BaselineCall("rolling_mean")

ComputeUnknownMode ==
    /\ cfg.mode \notin {"pre_stim_median", "global_median", "global_percentile",
                        "rolling_median", "rolling_percentile", "rolling_mean"}
    /\ BaselineCall(cfg.mode)

BaselineNext ==
    \/ ComputePreStimMedian
    \/ ComputeGlobalMedian
    \/ ComputeGlobalPercentile
    \/ ComputeRollingMedian
    \/ ComputeRollingPercentile
    \/ ComputeRollingMean
    \/ ComputeUnknownMode

SpecBaseline == BaselineInit /\ [][BaselineNext]_vars

---------------------------------------------------------------------------
(* Claims about BaselineComputer, checked under SpecBaseline.              *)

BaselineDone(modes) == pc = "baseline_done" /\ cfg.mode \in modes

\* the valid samples of column c among the frames W
ValidIn(c, W) == {k \in W : ~IsNaN(c[k])}

\* the r-th smallest valid sample of c among the frames W, by counting
RankOver(c, W, r) ==
    CHOOSE x \in {c[k] : k \in ValidIn(c, W)} :
        /\ Cardinality({k \in ValidIn(c, W) : LtV(c[k], x)}) < r
        /\ r <= Cardinality({k \in ValidIn(c, W) : ~LtV(x, c[k])})

\* the median of the valid samples of c among the frames W, NaN without any
MedianOver(c, W) ==
    LET k == Cardinality(ValidIn(c, W))
    IN  IF k = 0 THEN NaN
        ELSE DivV(AddV(RankOver(c, W, (k + 1) \div 2), RankOver(c, W, (k + 2) \div 2)),
                  Fin(2))

\* the frames (1-based) at the 0-based positions [max(0, stim - pre), stim)
PreStimFrames(n, stim, pre) ==
    {i \in 1..n : i - 1 < stim /\ i - 1 >= stim - pre /\ i - 1 >= 0}

\* C4: pre_stim_median on a table of n frames fails when stim_frame is
\* missing or outside [1, n] or when pre_window < 3; otherwise the baseline
\* of each channel is the median of its frames [max(0, stim_frame -
\* pre_window), stim_frame), a window that is never empty, repeated over all
\* n frames under the input's labels, and f0_vec holds the same values.
C4_PreStimMedian ==
    BaselineDone({"pre_stim_median"}) =>
        LET n == NRows(df_raw)
            s == cfg.stim_frame
            accepted == /\ s # None
                        /\ s[1] >= 1
                        /\ s[1] <= n
                        /\ cfg.pre_window >= 3
        IN  IF ~accepted
            THEN /\ err \in {E_StimNone, E_StimRange, E_PreWindow}
                 /\ F0_df = NoTable
                 /\ f0_vec = NoSeries
            ELSE /\ err = "none"
                 /\ F0_df.index = df_raw.index
                 /\ F0_df.columns = df_raw.columns
                 /\ f0_vec.index = df_raw.columns
                 /\ PreStimFrames(n, s[1], cfg.pre_window) # {}
                 /\ \A j \in 1..NCols(df_raw) :
                      LET m == MedianOver(Col(df_raw, j),
                                          PreStimFrames(n, s[1], cfg.pre_window))
                      IN  /\ f0_vec.data[1][j] = m
                          /\ \A i \in 1..n : F0_df.data[i][j] = m

\* a window cut short by the start of the recording, holding a missing sample
\* and two valid ones, whose median is repeated over a longer table
C4_Witness ==
    /\ BaselineDone({"pre_stim_median"})
    /\ err = "none"
    /\ cfg.stim_frame[1] < cfg.pre_window
    /\ NRows(df_raw) > cfg.stim_frame[1]
    /\ LET W == PreStimFrames(NRows(df_raw), cfg.stim_frame[1], cfg.pre_window)
       IN  /\ Cardinality(ValidIn(Col(df_raw, 1), W)) = 2
           /\ Cardinality(W) = 3
    /\ IsFinite(F0_df.data[NRows(df_raw)][1])

RollingModes == {"rolling_median", "rolling_percentile", "rolling_mean"}

\* the frames within a window of w frames centred on frame i
CenteredWindow(n, w, i) ==
    {k \in 1..n : k >= i - (w \div 2) /\ k <= i + ((w - 1) \div 2)}

\* max(3, the least integer not below w * frac), in exact arithmetic
MinValidSamples(w, frac) ==
    Max(3, CHOOSE m \in 0..(w * Abs(frac[1]) + 1) :
               /\ m * frac[2] >= w * frac[1]
               /\ (m - 1) * frac[2] < w * frac[1])

\* the frames of c whose centred window holds enough valid samples
ValidFrames(c, w, frac) ==
    {i \in 1..Len(c) :
        Cardinality(ValidIn(c, CenteredWindow(Len(c), w, i))) >= MinValidSamples(w, frac)}

\* the statistic of the configured strategy over the frames W of c
StatOver(c, W) ==
    LET order == SortSet(W)
        samples == Items([k \in 1..Len(order) |-> c[order[k]]])
    IN  CASE cfg.mode = "rolling_median" -> MedianOver(c, W)
          [] cfg.mode = "rolling_mean" -> Mean(samples)
          [] cfg.mode = "rolling_percentile" ->
                 Quantile(samples, Percent(cfg.rolling_percentile_q))

\* a column with its infinite samples taken for missing ones
FiniteSamples(c) == [i \in 1..Len(c) |-> IF IsInf(c[i]) THEN NaN ELSE c[i]]

\* C5 as stated, for every call that returns a baseline and with the finite
\* samples as the valid ones: a rolling strategy computes its statistic at a
\* frame only when the centred window holds at least
\* max(3, ceil(rolling_window * roll_min_frac)) valid samples; every other
\* frame takes the value of the nearest later computed frame, or of the
\* nearest earlier one when none follows; a channel keeps NaN exactly when no
\* frame has enough valid samples.
C5_RollingValidity ==
    (BaselineDone(RollingModes) /\ err = "none") =>
        \A j \in 1..NCols(df_raw) :
           LET c == Items(FiniteSamples(Items(Col(df_raw, j))))
               V == ValidFrames(c, cfg.rolling_window, cfg.roll_min_frac)
               W(i) == CenteredWindow(Len(c), cfg.rolling_window, i)
               Least(S) == CHOOSE x \in S : \A y \in S : x <= y
               Greatest(S) == CHOOSE x \in S : \A y \in S : x >= y
           IN  /\ \A i \in 1..Len(c) :
                    LET later == {k \in V : k >= i}
                        earlier == {k \in V : k < i}
                    IN  F0_df.data[i][j] =
                           IF later # {} THEN StatOver(c, W(Least(later)))
                           ELSE IF earlier # {} THEN StatOver(c, W(Greatest(earlier)))
                           ELSE NaN
               /\ (\E i \in 1..Len(c) : IsNaN(F0_df.data[i][j])) <=> V = {}

\* C5 holds wherever the double product rolling_window * roll_min_frac has
\* the ceiling of the exact product: the same statement without the runs on
\* the window and fraction of RoundedUp
RollingValidityUnrounded ==
    <<cfg.rolling_window, cfg.roll_min_frac>> # RoundedUp => C5_RollingValidity

\* seven valid frames, window 25, fraction 0.28: every window holds
\* 7 = ceil(25 * 7/25) valid samples, the call returns, and the baseline is
\* missing at every frame because min_periods was 8
RoundedUpRun ==
    /\ BaselineDone(RollingModes)
    /\ <<cfg.rolling_window, cfg.roll_min_frac>> = RoundedUp
    /\ NRows(df_raw) = 7
    /\ \A i \in 1..7 : IsFinite(df_raw.data[i][1])
    /\ err = "none"
    /\ \A i \in 1..7 : IsNaN(F0_df.data[i][1])

\* a fraction above 1 asks for more samples than the window has: the call
\* fails in df.rolling
AboveOneRun ==
    /\ BaselineDone(RollingModes)
    /\ <<cfg.rolling_window, cfg.roll_min_frac>> = AboveOne
    /\ err = E_MinPeriods
    /\ F0_df = NoTable

\* a window of three frames holding two finite samples and an infinite one
\* is not computed
InfSampleRun ==
    /\ BaselineDone(RollingModes)
    /\ err = "none"
    /\ cfg.rolling_window = 3
    /\ NRows(df_raw) = 3
    /\ IsInf(df_raw.data[1][1])
    /\ IsFinite(df_raw.data[2][1])
    /\ IsFinite(df_raw.data[3][1])
    /\ \A i \in 1..3 : IsNaN(F0_df.data[i][1])

\* C8 as stated: with a percentile outside [0, 100], global_percentile and
\* rolling_percentile both fail, before any percentile or window computation
\* has started.
C8_PercentileRejected ==
    LET outside(q) == q[1] < 0 \/ q[1] > 100 * q[2]
    IN  (pc = "baseline_done"
         /\ \/ cfg.mode = "global_percentile" /\ outside(cfg.global_percentile_q)
            \/ cfg.mode = "rolling_percentile" /\ outside(cfg.rolling_percentile_q))
        => (err # "none" /\ log = <<>>)

---------------------------------------------------------------------------
(* Detrender (src/pipeline/detrend.py).                                    *)

E_DetrendMethod == "ValueError: DETREND_METHOD must be 'none','rolling_median','linear'"

E_DetrendWindow == "ValueError: rolling_window must be odd and >=5"

\* Detrender._linear_detrend on one column: the residual of the least-squares
\* line over x = 0..n-1, in exact arithmetic.  A single frame is fitted
\* exactly by the minimum-norm solution; a missing sample makes the fitted
\* coefficients, and so the whole column, NaN.
LinearDetrend(c) ==
    LET n == Len(c)
        xbar == <<n - 1, 2>>
        ybar == DivV(SumV(c), Fin(n))
        dx(i) == SubV(Fin(i - 1), xbar)
        sxx == SumV(Items([i \in 1..n |-> MulV(dx(i), dx(i))]))
        sxy == SumV(Items([i \in 1..n |-> MulV(dx(i), SubV(c[i], ybar))]))
        m == DivV(sxy, sxx)
        b == SubV(ybar, MulV(m, xbar))
    IN  IF \E i \in 1..n : ~IsFinite(c[i]) THEN [i \in 1..n |-> NaN]
        ELSE IF n = 1 THEN <<Fin(0)>>
        ELSE [i \in 1..n |-> SubV(c[i], AddV(MulV(m, Fin(i - 1)), b))]

\* Detrender._rolling_median_detrend: df minus the centred rolling median
\* with min_periods=1 (the median of the window's finite samples: the rolling
\* window takes +-inf for NaN, the subtraction takes df as it is)
RollingMedianDetrend(df, rolling_window) ==
    FromCols(df, Items([j \in 1..NCols(df) |->
        LET c == Items(Col(df, j))
        IN  Items([i \in 1..Len(c) |->
                SubV(c[i],
                     IF i \in RollingValid(c, rolling_window, 1)
                     THEN Median(Items(RollingWindowOf(c, rolling_window, i)))
                     ELSE NaN)])]))

\* Detrender.apply for self = [method, rolling_window]
DetrenderApply(self, df) ==
    LET m == Lower(self.method)
    IN  IF m = "none" THEN Ret(df)
        ELSE IF m = "linear"
        THEN Ret(FromCols(df, Items([j \in 1..NCols(df) |->
                                       Items(LinearDetrend(Items(Col(df, j))))])))
        ELSE IF m = "rolling_median"
        THEN IF self.rolling_window < 5 \/ self.rolling_window % 2 = 0
             THEN Raise(E_DetrendWindow)
             ELSE Ret(RollingMedianDetrend(df, self.rolling_window))
        ELSE Raise(E_DetrendMethod)

---------------------------------------------------------------------------
(* SpecPipeline: one run of run_pipeline (src/run_pipeline.py, also behind *)
(* /process/json and /process/download through PipelineAPI.process_file)   *)
(* or of the /process/roi handler (src/api.py), one action per stage.      *)
(* df_raw is the table as loaded; log lists the computations performed;    *)
(* for process_roi err is the detail of the HTTP 400 response.             *)

E_NormMode == "ValueError: Unknown normalization_mode: expected 'dff' or 'subtract'"

\* cfg.get(key) or fallback, for an optional integer
OrElse(opt, fallback) == IF opt = None \/ opt = <<0>> THEN fallback ELSE opt[1]

\* the BaselineComputer built by both entry points (run_pipeline.py:50-60,
\* api.py:94-101); process_roi ignores baseline_rolling_window
PipelineBaseline(c, e) ==
    BaselineKw(c.baseline_mode, c.stim_frame, c.pre_window,
               IF e = "run_pipeline"
               THEN OrElse(c.baseline_rolling_window, c.rolling_window)
               ELSE c.rolling_window,
               c.global_percentile_q, c.rolling_percentile_q, <<1, 5>>)

\* the Detrender built by both entry points (run_pipeline.py:51,63,
\* api.py:104); process_roi ignores detrend_rolling_window
PipelineDetrender(c, e) ==
    [method |-> c.detrend,
     rolling_window |-> IF e = "run_pipeline"
                        THEN OrElse(c.detrend_rolling_window, c.rolling_window)
                        ELSE c.rolling_window]

\* the FilterApplier built by both entry points (run_pipeline.py:78-83,
\* api.py:115-120), with SciPy importable
PipelineFilter(c) ==
    FilterApplierInit(FilterKw(c.filter_method, c.gaussian_sigma, "reflect",
                               c.savgol_window, c.savgol_poly, TRUE, TRUE))

PipelineTables ==
    {FromCols(MkFrame(RangeIndex(2), <<1>>, <<>>), <<TraceColumn(2, {}, 1)>>),
     FromCols(MkFrame(RangeIndex(3), <<1>>, <<>>), <<TraceColumn(3, {}, 1)>>),
     FromCols(MkFrame(RangeIndex(MaxFrames), <<1, 2>>, <<>>),
              <<TraceColumn(MaxFrames, {}, 1), TraceColumn(MaxFrames, {3}, 2)>>),
     MkFrame(<<>>, <<1>>, <<>>)}

PipelineConfigs ==
    {[baseline_mode |-> bm, detrend |-> dt, normalization_mode |-> nm,
      filter_method |-> fm, stim_frame |-> <<2>>, pre_window |-> 3,
      rolling_window |-> 5, baseline_rolling_window |-> None,
      detrend_rolling_window |-> drw, global_percentile_q |-> Fin(30),
      rolling_percentile_q |-> Fin(10), gaussian_sigma |-> gs,
      savgol_window |-> 5, savgol_poly |-> 1, save_excel |-> sx] :
        bm \in {"pre_stim_median", "rolling_median", "global_percentile", "bogus"},
        dt \in {"none", "Linear", "rolling_median", "bogus"},
        nm \in {"dff", "Subtract", "bogus", ""},
        fm \in {"savgol", "gaussian", "bogus"},
        drw \in {None, <<4>>},
        gs \in {<<1, 2>>, Fin(0)},
        sx \in BOOLEAN}

\* df_raw is any table a loader hands over: SignalLoader.load refuses to
\* drop as many frames as there are only when drop_first > 0, so with
\* drop_first = 0 run_pipeline too can start from a table without frames.
\* The /process/roi handler saves nothing, uses rolling_window alone, and its
\* parameters have passed ProcessParams (schemas.py), which admits only
\* gaussian_sigma > 0.
PipelineInit ==
    /\ pc = "loaded"
    /\ entry \in {"run_pipeline", "process_roi"}
    /\ cfg \in PipelineConfigs
    /\ df_raw \in PipelineTables
    /\ entry = "process_roi" => /\ ~cfg.save_excel
                                /\ cfg.detrend_rolling_window = None
                                /\ LtV(Fin(0), cfg.gaussian_sigma)
    /\ F0_df = NoTable
    /\ f0_vec = NoSeries
    /\ df_detr = NoTable
    /\ sub_df = NoTable
    /\ dff_df = NoTable
    /\ norm_df = NoTable
    /\ filter_df = NoTable
    /\ saved = NoTable
    /\ err = "none"
    /\ log = <<>>

\* an exception leaves run_pipeline, or is answered with HTTP 400
PipelineFail(e) ==
    /\ pc' = "failed"
    /\ err' = e

\* F0_df, f0_vec = baseline.compute(df_raw)
PipelineComputeBaseline ==
    /\ pc = "loaded"
    /\ LET r == BaselineCompute(PipelineBaseline(cfg, entry), df_raw)
       IN  IF r.err # "none"
           THEN /\ PipelineFail(r.err)
                /\ log' = IF r.started THEN Append(log, "baseline") ELSE log
                /\ UNCHANGED <<F0_df, f0_vec>>
           ELSE /\ F0_df' = r.F0
                /\ f0_vec' = r.f0
                /\ log' = Append(log, "baseline")
                /\ pc' = "baseline"
                /\ UNCHANGED err
    /\ UNCHANGED <<entry, cfg, df_raw, df_detr, sub_df, dff_df, norm_df, filter_df, saved>>

\* df_detr = Detrender(...).apply(df_raw)
PipelineDetrend ==
    /\ pc = "baseline"
    /\ LET r == DetrenderApply(PipelineDetrender(cfg, entry), df_raw)
       IN  IF r.err # "none"
           THEN PipelineFail(r.err) /\ UNCHANGED <<df_detr, log>>
           ELSE /\ df_detr' = r.out
                /\ log' = Append(log, "detrend")
                /\ pc' = "detrend"
                /\ UNCHANGED err
    /\ UNCHANGED <<entry, cfg, df_raw, F0_df, f0_vec, sub_df, dff_df, norm_df, filter_df, saved>>

\* a subtraction that takes the raw table as signal
PipelineSubtractRaw ==
    /\ pc = "detrend"
    /\ LET r == NormalizerSubtract(df_raw, F0_df)
       IN  IF r.err # "none"
           THEN PipelineFail(r.err) /\ UNCHANGED <<sub_df, log>>
           ELSE /\ sub_df' = r.out
                /\ log' = Append(log, "subtract")
                /\ pc' = "subtract"
                /\ UNCHANGED err
    /\ UNCHANGED <<entry, cfg, df_raw, F0_df, f0_vec, df_detr, dff_df, norm_df, filter_df, saved>>

\* sub_df = Normalizer.subtract(df_detr, F0_df)
PipelineSubtract ==
    /\ pc = "detrend"
    /\ LET r == NormalizerSubtract(df_detr, F0_df)
       IN  IF r.err # "none"
           THEN PipelineFail(r.err) /\ UNCHANGED <<sub_df, log>>
           ELSE /\ sub_df' = r.out
                /\ log' = Append(log, "subtract")
                /\ pc' = "subtract"
                /\ UNCHANGED err
    /\ UNCHANGED <<entry, cfg, df_raw, F0_df, f0_vec, df_detr, dff_df, norm_df, filter_df, saved>>

\* dff_df = Normalizer.deltaF_over_F(df_detr, F0_df), all keywords at default
PipelineDff ==
    /\ pc = "subtract"
    /\ LET r == DeltaFOverF(df_detr, F0_df, DefaultEps, FALSE, FALSE, Fin(0))
       IN  IF r.err # "none"
           THEN PipelineFail(r.err) /\ UNCHANGED <<dff_df, log>>
           ELSE /\ dff_df' = r.out
                /\ log' = Append(log, "dff")
                /\ pc' = "dff"
                /\ UNCHANGED err
    /\ UNCHANGED <<entry, cfg, df_raw, F0_df, f0_vec, df_detr, sub_df, norm_df, filter_df, saved>>

\* run_pipeline.py:70-76: subtract, dff, or ValueError
SelectNormRunPipeline ==
    /\ pc = "dff"
    /\ entry = "run_pipeline"
    /\ LET norm_mode == Lower(cfg.normalization_mode)
       IN  IF norm_mode = "subtract"
           THEN norm_df' = sub_df /\ pc' = "select" /\ UNCHANGED err
           ELSE IF norm_mode = "dff"
           THEN norm_df' = dff_df /\ pc' = "select" /\ UNCHANGED err
           ELSE PipelineFail(E_NormMode) /\ UNCHANGED norm_df
    /\ UNCHANGED <<entry, cfg, df_raw, F0_df, f0_vec, df_detr, sub_df, dff_df, filter_df,
                   saved, log>>

\* api.py:85: norm_mode = (cfg.get("normalization_mode") or "dff").lower(),
\* so an empty name (like a missing one) stands for dff;
\* api.py:113: norm_df = dff_df if norm_mode == "dff" else sub_df
SelectNormProcessRoi ==
    /\ pc = "dff"
    /\ entry = "process_roi"
    /\ LET norm_mode == Lower(IF cfg.normalization_mode = "" THEN "dff"
                              ELSE cfg.normalization_mode)
       IN  norm_df' = IF norm_mode = "dff" THEN dff_df ELSE sub_df
    /\ pc' = "select"
    /\ UNCHANGED <<entry, cfg, df_raw, F0_df, f0_vec, df_detr, sub_df, dff_df, filter_df,
                   saved, err, log>>

\* filter_df = FilterApplier(...).apply(norm_df); an empty table is handed
\* back before the method is looked at, and nothing is computed for it
PipelineFilterStep ==
    /\ pc = "select"
    /\ LET r == FilterApply(PipelineFilter(cfg), norm_df)
       IN  IF r.err # "none"
           THEN PipelineFail(r.err) /\ UNCHANGED <<filter_df, log>>
           ELSE /\ filter_df' = r.out
                /\ log' = IF IsEmpty(norm_df) THEN log ELSE Append(log, "filter")
                /\ pc' = "filter"
                /\ UNCHANGED err
    /\ UNCHANGED <<entry, cfg, df_raw, F0_df, f0_vec, df_detr, sub_df, dff_df, norm_df, saved>>

\* an export written as soon as both normalisations exist, before the
\* selection and the filter
PipelineSaveEarly ==
    /\ pc = "dff"
    /\ entry = "run_pipeline"
    /\ cfg.save_excel
    /\ saved = NoTable
    /\ saved' = IF Lower(cfg.normalization_mode) = "dff" THEN dff_df ELSE sub_df
    /\ UNCHANGED <<pc, entry, cfg, df_raw, F0_df, f0_vec, df_detr, sub_df, dff_df, norm_df,
                   filter_df, err, log>>

\* an export of the filtered table
PipelineSaveFiltered ==
    /\ pc = "filter"
    /\ entry = "run_pipeline"
    /\ cfg.save_excel
    /\ saved' = filter_df
    /\ pc' = "returned"
    /\ UNCHANGED <<entry, cfg, df_raw, F0_df, f0_vec, df_detr, sub_df, dff_df, norm_df,
                   filter_df, err, log>>

\* run_pipeline.py:86-91 with save_excel: the unfiltered table of the chosen
\* normalisation is written, then the output path is returned
PipelineSave ==
    /\ pc = "filter"
    /\ entry = "run_pipeline"
    /\ cfg.save_excel
    /\ saved' = IF Lower(cfg.normalization_mode) = "dff" THEN dff_df ELSE sub_df
    /\ pc' = "returned"
    /\ UNCHANGED <<entry, cfg, df_raw, F0_df, f0_vec, df_detr, sub_df, dff_df, norm_df,
                   filter_df, err, log>>

\* run_pipeline without save_excel returns the output path
PipelineReturn ==
    /\ pc = "filter"
    /\ entry = "run_pipeline"
    /\ ~cfg.save_excel
    /\ pc' = "returned"
    /\ UNCHANGED <<entry, cfg, df_raw, F0_df, f0_vec, df_detr, sub_df, dff_df, norm_df,
                   filter_df, saved, err, log>>

E_JsonFloat == "ValueError: Out of range float values are not JSON compliant"

\* a cell that JSON cannot carry
NotJson(v) == IsNaN(v) \/ IsInf(v)

HasNotJson(t) ==
    \E i \in 1..Len(t.data) : \E j \in 1..Len(t.data[i]) : NotJson(t.data[i][j])

\* api.py:123-136: the JSONResponse with raw, sub, dff, dff_filtered and f0
\* is rendered inside the try block, with allow_nan=False
ProcessRoiRespond ==
    /\ pc = "filter"
    /\ entry = "process_roi"
    /\ IF \E t \in {df_raw, sub_df, dff_df, filter_df, f0_vec} : HasNotJson(t)
       THEN PipelineFail(E_JsonFloat)
       ELSE pc' = "returned" /\ UNCHANGED err
    /\ UNCHANGED <<entry, cfg, df_raw, F0_df, f0_vec, df_detr, sub_df, dff_df, norm_df,
                   filter_df, saved, log>>

PipelineNext ==
    \/ PipelineComputeBaseline
    \/ PipelineDetrend
    \/ PipelineSubtract
    \/ PipelineDff
    \/ SelectNormRunPipeline
    \/ SelectNormProcessRoi
    \/ PipelineFilterStep
    \/ PipelineSave
    \/ PipelineReturn
    \/ ProcessRoiRespond

SpecPipeline == PipelineInit /\ [][PipelineNext]_vars

---------------------------------------------------------------------------
(* Claims about the orchestration, checked under SpecPipeline.             *)

ConfigErrors == {E_BaselineMode, E_DetrendMethod, E_NormMode, E_FilterMethod}

\* one of the four selections is outside its enum (names compared as the
\* code compares them: the baseline mode as given, the others in lower case)
UnknownSelection ==
    \/ cfg.baseline_mode \notin {"pre_stim_median", "global_median", "global_percentile",
                                 "rolling_median", "rolling_percentile", "rolling_mean"}
    \/ Lower(cfg.detrend) \notin {"none", "rolling_median", "linear"}
    \/ Lower(cfg.normalization_mode) \notin {"dff", "subtract"}
    \/ Lower(cfg.filter_method) \notin {"savgol", "gaussian"}

\* C9 as stated: at every entry point a run with a selection outside its
\* enum performs no baseline, detrend, normalization or filter computation,
\* never returns a result, and ends with a configuration error.
C9_UnknownSelectionAborts ==
    UnknownSelection =>
        /\ log = <<>>
        /\ pc # "returned"
        /\ pc = "failed" => err \in ConfigErrors

\* the computations of a complete run, in order (the filter computes nothing
\* for a table without frames and hands it back)
Stages == <<"baseline", "detrend", "subtract", "dff", "filter">>

\* C11: in run_pipeline an output table has been written only once the
\* baseline, detrend, normalization, selection and filter stages have all
\* completed without error; a run that failed in any stage has saved nothing
\* and returns no path.
C11_SaveAfterStages ==
    entry = "run_pipeline" =>
        /\ saved # NoTable =>
              /\ pc = "returned"
              /\ err = "none"
              /\ log = IF IsEmpty(norm_df) THEN SubSeq(Stages, 1, 4) ELSE Stages
              /\ norm_df # NoTable
              /\ filter_df # NoTable
        /\ (pc = "failed" \/ err # "none") => (saved = NoTable /\ pc # "returned")
        /\ (pc = "returned" /\ cfg.save_excel) => saved # NoTable

\* a run asked to save that failed in the last stage, the filter, after both
\* normalisations and the selection were done
C11_Witness ==
    /\ entry = "run_pipeline"
    /\ cfg.save_excel
    /\ pc = "failed"
    /\ err \in {E_FilterMethod, E_SavgolPoly, E_SavgolWindow}
    /\ log = <<"baseline", "detrend", "subtract", "dff">>
    /\ norm_df # NoTable
    /\ saved = NoTable

\* the table normalization_mode selects, for a mode within the enum
SelectedTable == IF Lower(cfg.normalization_mode) = "dff" THEN dff_df ELSE sub_df

\* a run on a table without frames (drop_first = 0) that returned: the four
\* computations ran, the filter handed the table back, the table was saved
EmptyTableRun ==
    /\ entry = "run_pipeline"
    /\ IsEmpty(df_raw)
    /\ pc = "returned"
    /\ log = <<"baseline", "detrend", "subtract", "dff">>
    /\ filter_df = norm_df
    /\ saved = SelectedTable
    /\ saved # NoTable

\* process_roi was given an empty normalization_mode: the dF/F table, which
\* differs from the F - F0 table, went to the filter and the handler answered
EmptyNormModeRun ==
    /\ entry = "process_roi"
    /\ cfg.normalization_mode = ""
    /\ pc = "returned"
    /\ norm_df = dff_df
    /\ norm_df # sub_df

\* run_pipeline was given an empty normalization_mode: it fails after both
\* normalizations with the unknown-mode error (run_pipeline.py:70-76)
EmptyNormModeFails ==
    /\ entry = "run_pipeline"
    /\ cfg.normalization_mode = ""
    /\ pc = "failed"
    /\ err = E_NormMode
    /\ log = <<"baseline", "detrend", "subtract", "dff">>

\* C12: once a run has passed the normalization stage both the F - F0 table
\* and the dF/F table exist, whatever the mode; for normalization_mode dff or
\* subtract the table handed to the filter is the selected one (dF/F for dff,
\* F - F0 for subtract), and the exported table is that selected table, not
\* its filtered version.
C12_SelectedTable ==
    /\ pc \in {"dff", "select", "filter", "returned"} =>
          /\ SubSeq(log, 1, 4) = <<"baseline", "detrend", "subtract", "dff">>
          /\ sub_df # NoTable
          /\ dff_df # NoTable
    /\ (pc \in {"select", "filter", "returned"}
        /\ Lower(cfg.normalization_mode) \in {"dff", "subtract"}) =>
          /\ norm_df = SelectedTable
          /\ pc \in {"filter", "returned"} =>
                filter_df = FilterApply(PipelineFilter(cfg), SelectedTable).out
          /\ saved # NoTable => saved = SelectedTable
          /\ (pc = "returned" /\ entry = "run_pipeline" /\ cfg.save_excel) =>
                saved # NoTable

\* a finished run in subtract mode whose export is the F - F0 table, which
\* differs from the dF/F table and from the filtered table
C12_Witness ==
    /\ pc = "returned"
    /\ entry = "run_pipeline"
    /\ Lower(cfg.normalization_mode) = "subtract"
    /\ saved = sub_df
    /\ saved # dff_df
    /\ saved # filter_df
    /\ filter_df # NoTable

---------------------------------------------------------------------------
(* Further claims about FilterApplier, checked under SpecFilter.           *)

\* C13: with method gaussian and sigma <= 0, FilterApplier.apply succeeds and
\* returns a table equal to its input cell for cell and label for label
\* (missing cells still missing); so in a pipeline run with filter_method
\* gaussian and gaussian_sigma <= 0 the filtered table equals the selected
\* normalization table.
C13_GaussianIdentity ==
    /\ (pc = "filter_done" /\ cfg.method = "gaussian"
        /\ ~LtV(Fin(0), cfg.gaussian_sigma)) =>
          /\ err = "none"
          /\ filter_df = norm_df
    /\ (pc \in {"filter", "returned"} /\ Lower(cfg.filter_method) = "gaussian"
        /\ ~LtV(Fin(0), cfg.gaussian_sigma)) =>
          /\ err = "none"
          /\ filter_df = norm_df

\* a table with a missing cell beside a valid one in the same channel, and a
\* second, entirely missing channel, handed back unchanged
C13_Witness ==
    /\ pc = "filter_done"
    /\ cfg.method = "gaussian"
    /\ cfg.gaussian_sigma = Fin(0)
    /\ NCols(norm_df) = 2
    /\ NRows(norm_df) >= 3
    /\ \E i, k \in 1..NRows(norm_df) :
          IsNaN(norm_df.data[i][1]) /\ IsFinite(norm_df.data[k][1])
    /\ AllNaN(Col(norm_df, 2))
    /\ filter_df = norm_df

\* the same in a run of the pipeline
GaussianIdentityRun ==
    /\ pc = "returned"
    /\ Lower(cfg.filter_method) = "gaussian"
    /\ cfg.gaussian_sigma = Fin(0)
    /\ NRows(norm_df) >= 3
    /\ filter_df = norm_df

\* C14 as stated: for every sigma > 0 and every boundary policy the fallback
\* Gaussian routine and the optimized one give the same table, both with the
\* kernel radius max(1, round(3 * sigma)).
C14_FallbackEquivalent ==
    (pc = "filter_done" /\ cfg.method = "gaussian" /\ LtV(Fin(0), cfg.gaussian_sigma)) =>
        /\ err = "none"
        /\ filter_df =
              FilterApply([cfg EXCEPT !.have_scipy_gauss = ~cfg.have_scipy_gauss],
                          norm_df).out
        /\ NdimageRadius(cfg.gaussian_sigma) = NumpyRadius(cfg.gaussian_sigma)

---------------------------------------------------------------------------
(* SpecFrame: one call of a component operation on a table the caller     *)
(* keeps, followed by an in-place change the caller makes to the returned  *)
(* table.  df_raw is the present content of the caller's table; log tells  *)
(* whether the returned table is that same object.                         *)

\* returning df itself: the result is the caller's object
SameObject(df) == [val |-> df, shared |-> TRUE]

\* a copy that is not made: the argument itself is handed back
CopySkipped(df) == SameObject(df)

\* df.copy(): an equal table in an object of its own
CopyOf(df) == [val |-> df, shared |-> FALSE]

\* a table built by the operation
NewObject(t) == [val |-> t, shared |-> FALSE]

\* a fill written into the table that apply() was given
FilledInPlace(df) == FillForFilter(df)

\* FilterApplier.apply lines 160-169: df_filled = df.copy(), and the filled
\* columns are assigned into df_filled; the content of df afterwards
ArgAfterFill(df) == df

\* Detrender.apply at the level of objects: 'none' hands back df.copy(), the
\* other methods a table they build
DetrenderApplyRef(self, df) ==
    LET r == DetrenderApply(self, df)
    IN  IF r.err # "none" THEN [err |-> r.err, ref |-> NewObject(NoTable)]
        ELSE IF Lower(self.method) = "none" THEN [err |-> "none", ref |-> CopyOf(df)]
        ELSE [err |-> "none", ref |-> NewObject(r.out)]

\* FilterApplier.apply at the level of objects: an empty table is handed
\* back itself (line 157), otherwise the result is built by the filter
FilterApplyRef(self, df) ==
    LET r == FilterApply(self, df)
    IN  IF r.err # "none" THEN [err |-> r.err, ref |-> NewObject(NoTable), arg |-> ArgAfterFill(df)]
        ELSE IF IsEmpty(df) THEN [err |-> "none", ref |-> SameObject(df), arg |-> df]
        ELSE [err |-> "none", ref |-> NewObject(r.out), arg |-> ArgAfterFill(df)]

\* an in-place change by the caller: a cell is overwritten, or, in a table
\* without cells, the labels are renamed
Changed(t) ==
    IF NRows(t) > 0 /\ NCols(t) > 0
    THEN [t EXCEPT !.data[1][1] = Fin(99)]
    ELSE IF NCols(t) > 0
    THEN [t EXCEPT !.columns = [j \in 1..NCols(t) |-> 100 + t.columns[j]]]
    ELSE [t EXCEPT !.index = [i \in 1..NRows(t) |-> 100 + t.index[i]]]

FrameTables ==
    UNION {FilterTablesOf(n) : n \in 0..3}
    \cup {MkFrame(RangeIndex(3), <<>>, <<<<>>, <<>>, <<>>>>)}

FrameCalls ==
    {[op |-> "compute", self |-> BaselineKw(m, <<2>>, 3, 3, Fin(30), Fin(10), <<1, 5>>)] :
        m \in {"pre_stim_median", "global_median", "global_percentile",
               "rolling_median", "rolling_percentile", "rolling_mean"}}
    \cup {[op |-> "detrend", self |-> [method |-> m, rolling_window |-> 5]] :
        m \in {"none", "NONE", "NoNe", "Linear", "rolling_median", "ROLLING_median",
               "bogus"}}
    \cup {[op |-> o, self |-> NormKwDefaults] : o \in {"subtract", "dff"}}
    \cup {[op |-> "filter", self |-> FilterApplierInit(FilterKw(m, s, "reflect", 3, 1, TRUE, TRUE))] :
        m \in {"savgol", "gaussian", "median"}, s \in {Fin(0), Fin(1)}}

FrameInit ==
    /\ pc = "frame_ready"
    /\ entry = "component"
    /\ cfg \in FrameCalls
    /\ df_raw \in FrameTables
    /\ cfg.op = "compute" =>
          /\ NCols(df_raw) > 0
          /\ NRows(df_raw) >= 1 \/ cfg.self.mode = "pre_stim_median"
    /\ F0_df \in IF cfg.op \in {"subtract", "dff"}
                 THEN {MkScalar(Fin(2)), df_raw}
                 ELSE {NoTable}
    /\ f0_vec = NoSeries
    /\ df_detr = NoTable
    /\ sub_df = NoTable
    /\ dff_df = NoTable
    /\ norm_df = NoTable
    /\ filter_df = NoTable
    /\ saved = NoTable
    /\ err = "none"
    /\ log = <<>>

FrameEnd(e, shared) ==
    /\ err' = e
    /\ pc' = IF e = "none" THEN "frame_called" ELSE "frame_failed"
    /\ log' = IF e # "none" THEN <<>> ELSE IF shared THEN <<"same">> ELSE <<"new">>

\* F0_df, f0_vec = BaselineComputer(...).compute(df_raw): df is only read
FrameCompute ==
    /\ pc = "frame_ready"
    /\ cfg.op = "compute"
    /\ LET r == BaselineCompute(cfg.self, df_raw)
       IN  /\ F0_df' = r.F0
           /\ f0_vec' = r.f0
           /\ FrameEnd(r.err, FALSE)
    /\ UNCHANGED <<entry, cfg, df_raw, df_detr, sub_df, dff_df, norm_df, filter_df, saved>>

\* df_detr = Detrender(...).apply(df_raw)
FrameDetrend ==
    /\ pc = "frame_ready"
    /\ cfg.op = "detrend"
    /\ LET r == DetrenderApplyRef(cfg.self, df_raw)
       IN  /\ df_detr' = r.ref.val
           /\ FrameEnd(r.err, r.ref.shared)
    /\ UNCHANGED <<entry, cfg, df_raw, F0_df, f0_vec, sub_df, dff_df, norm_df, filter_df, saved>>

\* sub_df = Normalizer.subtract(df_raw, F0_df): df - baseline is a new table
FrameSubtract ==
    /\ pc = "frame_ready"
    /\ cfg.op = "subtract"
    /\ LET r == NormalizerSubtract(df_raw, F0_df)
       IN  /\ sub_df' = r.out
           /\ FrameEnd(r.err, FALSE)
    /\ UNCHANGED <<entry, cfg, df_raw, F0_df, f0_vec, df_detr, dff_df, norm_df, filter_df, saved>>

\* dff_df = Normalizer.deltaF_over_F(df_raw, F0_df): every step rebinds out
FrameDff ==
    /\ pc = "frame_ready"
    /\ cfg.op = "dff"
    /\ LET r == DeltaFOverF(df_raw, F0_df, cfg.self.eps, cfg.self.as_percent,
                            cfg.self.clip_negatives, cfg.self.fillna_value)
       IN  /\ dff_df' = r.out
           /\ FrameEnd(r.err, FALSE)
    /\ UNCHANGED <<entry, cfg, df_raw, F0_df, f0_vec, df_detr, sub_df, norm_df, filter_df, saved>>

\* filter_df = FilterApplier(...).apply(df_raw)
FrameFilter ==
    /\ pc = "frame_ready"
    /\ cfg.op = "filter"
    /\ LET r == FilterApplyRef(cfg.self, df_raw)
       IN  /\ filter_df' = r.ref.val
           /\ df_raw' = r.arg
           /\ FrameEnd(r.err, r.ref.shared)
    /\ UNCHANGED <<entry, cfg, F0_df, f0_vec, df_detr, sub_df, dff_df, norm_df, saved>>

\* the caller changes the returned table in place; the change shows in the
\* caller's own table exactly when both are the same object
ClientWrite ==
    /\ pc = "frame_called"
    /\ pc' = "frame_written"
    /\ F0_df' = IF cfg.op = "compute" THEN Changed(F0_df) ELSE F0_df
    /\ df_detr' = IF cfg.op = "detrend" THEN Changed(df_detr) ELSE df_detr
    /\ sub_df' = IF cfg.op = "subtract" THEN Changed(sub_df) ELSE sub_df
    /\ dff_df' = IF cfg.op = "dff" THEN Changed(dff_df) ELSE dff_df
    /\ filter_df' = IF cfg.op = "filter" THEN Changed(filter_df) ELSE filter_df
    /\ df_raw' = IF log = <<"same">> THEN Changed(df_raw) ELSE df_raw
    /\ UNCHANGED <<entry, cfg, f0_vec, norm_df, saved, err, log>>

FrameNext ==
    \/ FrameCompute
    \/ FrameDetrend
    \/ FrameSubtract
    \/ FrameDff
    \/ FrameFilter
    \/ ClientWrite

SpecFrame == FrameInit /\ [][FrameNext]_vars

DetrendNoneCall == cfg.op = "detrend" /\ Lower(cfg.self.method) = "none"

\* C15: no component operation (BaselineComputer.compute, Detrender.apply,
\* Normalizer.subtract, Normalizer.deltaF_over_F, FilterApplier.apply) changes
\* a cell or a label of a table it is given, whether it succeeds or fails;
\* Detrender.apply with method none succeeds with a table equal to its input,
\* and a later in-place change to that table leaves the input as it was.
C15_InputUntouched ==
    [][/\ pc = "frame_ready" =>
             /\ df_raw' = df_raw
             /\ cfg.op \in {"subtract", "dff"} => F0_df' = F0_df
       /\ (pc = "frame_ready" /\ DetrendNoneCall) =>
             /\ err' = "none"
             /\ df_detr' = df_raw
       /\ (pc = "frame_called" /\ DetrendNoneCall) =>
             /\ df_detr' # df_detr
             /\ df_raw' = df_raw]_vars

\* the table returned by Detrender.apply with method none has been changed
\* by the caller and now differs from the input, which has a missing cell
C15_Witness ==
    /\ pc = "frame_written"
    /\ DetrendNoneCall
    /\ NRows(df_raw) >= 2
    /\ \E i \in 1..NRows(df_raw) : IsNaN(df_raw.data[i][1])
    /\ df_detr = Changed(df_raw)
    /\ df_detr # df_raw

---------------------------------------------------------------------------
(* Further claims about the orchestration, checked under SpecPipeline.     *)

\* what the run's baseline computer and detrender give for the raw table
RawBaseline == BaselineCompute(PipelineBaseline(cfg, entry), df_raw)

RawDetrended == DetrenderApply(PipelineDetrender(cfg, entry), df_raw)

\* C16: in every run the baseline is computed first, from the raw table,
\* whatever the detrend method; F - F0 and dF/F combine the detrended table
\* with that raw-derived F0; and when the baseline parameters and the
\* detrend parameters are both invalid, the baseline's error is reported.
C16_BaselineFromRaw ==
    /\ pc \notin {"loaded", "failed"} =>
          /\ F0_df = RawBaseline.F0
          /\ f0_vec = RawBaseline.f0
          /\ log[1] = "baseline"
    /\ df_detr # NoTable =>
          /\ df_detr = RawDetrended.out
          /\ SubSeq(log, 1, 2) = <<"baseline", "detrend">>
    /\ sub_df # NoTable => sub_df = NormalizerSubtract(RawDetrended.out, RawBaseline.F0).out
    /\ dff_df # NoTable =>
          dff_df = DeltaFOverF(RawDetrended.out, RawBaseline.F0, DefaultEps,
                               FALSE, FALSE, Fin(0)).out
    /\ (pc = "failed" /\ RawBaseline.err # "none") => err = RawBaseline.err
    /\ (pc = "failed" /\ RawBaseline.err = "none" /\ RawDetrended.err # "none") =>
          err = RawDetrended.err

\* a run whose detrending changed the table, so that a baseline of the
\* detrended table would differ from the one in use, with both
\* normalisations done
C16_Witness ==
    /\ pc = "returned"
    /\ df_detr # df_raw
    /\ F0_df # BaselineCompute(PipelineBaseline(cfg, entry), df_detr).F0
    /\ sub_df # NormalizerSubtract(df_raw, F0_df).out
    /\ dff_df # NoTable

\* a run with an unknown baseline mode and an unknown detrend method has
\* failed with the baseline's error
BaselineErrorFirst ==
    /\ pc = "failed"
    /\ RawBaseline.err # "none"
    /\ RawDetrended.err # "none"
    /\ err = RawBaseline.err

---------------------------------------------------------------------------
(* A further claim about Normalizer.deltaF_over_F, checked under SpecNorm. *)

InPipeline == entry \in {"run_pipeline", "process_roi"}

\* C17: in deltaF_over_F a missing (NaN) baseline entry is replaced by +eps
\* like an entry below eps in magnitude, so for a finite signal the cell is
\* (signal - eps) / eps (in percent and clipped when so asked) and not the
\* fill value; in a pipeline run a rolling baseline channel without any
\* window of enough valid samples is entirely missing, and the dF/F cells of
\* that channel are (signal - eps) / eps.
C17_MissingBaselineIsEps ==
    /\ (pc = "dff_done" /\ err = "none") =>
          \A i \in 1..NRows(df_detr) : \A j \in 1..NCols(df_detr) :
             LET r == df_detr.index[i]
                 c == df_detr.columns[j]
                 b == BaseEntry(F0_df, r, c)
                 s == df_detr.data[i][j]
             IN  (b[1] /\ IsNaN(b[2]) /\ IsFinite(s))
                     => CellAt(dff_df, r, c) = EpsQuotient(s, cfg)
    /\ (InPipeline /\ dff_df # NoTable) =>
          \A j \in 1..NCols(df_raw) :
             /\ (cfg.baseline_mode \in RollingModes
                 /\ ValidFrames(Col(df_raw, j),
                                PipelineBaseline(cfg, entry).rolling_window,
                                PipelineBaseline(cfg, entry).roll_min_frac) = {})
                   => AllNaN(Col(F0_df, j))
             /\ \A i \in 1..NRows(df_raw) :
                   (IsNaN(F0_df.data[i][j]) /\ IsFinite(df_detr.data[i][j]))
                     => dff_df.data[i][j] =
                           DivE(SubE(df_detr.data[i][j], DefaultEps), DefaultEps)

\* a frame baseline with a missing entry under a finite signal, filling
\* asked for, and a dF/F cell that is not the fill value
C17_Witness ==
    /\ pc = "dff_done"
    /\ err = "none"
    /\ cfg.fillna_value = Fin(0)
    /\ ~cfg.as_percent
    /\ ~cfg.clip_negatives
    /\ F0_df.kind = "frame"
    /\ \E i \in 1..NRows(df_detr) : \E j \in 1..NCols(df_detr) :
         LET r == df_detr.index[i]
             c == df_detr.columns[j]
             b == BaseEntry(F0_df, r, c)
         IN  /\ b[1]
             /\ IsNaN(b[2])
             /\ IsFinite(df_detr.data[i][j])
             /\ CellAt(dff_df, r, c) # cfg.fillna_value
             /\ CellAt(dff_df, r, c) =
                   DivE(SubE(df_detr.data[i][j], cfg.eps), cfg.eps)

\* a run on fewer frames than the rolling baseline needs: the baseline is
\* entirely missing and dF/F is (signal - eps) / eps
MissingBaselineRun ==
    /\ InPipeline
    /\ cfg.baseline_mode = "rolling_median"
    /\ dff_df # NoTable
    /\ NRows(df_raw) = 2
    /\ AllNaN(Col(F0_df, 1))
    /\ dff_df.data[1][1] = DivE(SubE(df_detr.data[1][1], DefaultEps), DefaultEps)
    /\ dff_df.data[1][1] # Fin(0)

=============================================================================
